---- MODULE Spec2Model ----
(***************************************************************************)
(* Model of the Module M serial decoder (src/module_m_decoder.py): the     *)
(* ModuleM object, its transport (pyserial), the polling loop of __main__  *)
(* and the device that feeds the serial line.                              *)
(*                                                                         *)
(* Bytes are integers 0..255, a bytes object is a sequence of them.        *)
(* struct.unpack("=...I") is modelled little-endian (native order of the   *)
(* deployed x86/ARM hosts), standard sizes, no padding.  time.time() is an *)
(* integer clock `now`.  The command-line scripts beside the decoder (the  *)
(* firmware updater, the log retriever, the debug commander) are modelled  *)
(* at the end, each as a run held in `script`.                             *)
(***************************************************************************)
EXTENDS Integers, Sequences, FiniteSets, TLC

VARIABLES
    sma,      \* the ModuleM object of the polling loop (all its fields but ser)
    ser,      \* sma.ser: the serial.Serial handle and the OS buffers behind it
    present,  \* the device is plugged in (comports() lists VID/PID)
    wire,     \* bytes the device has started to send and that are still on the wire
    sent,     \* number of frames the device has sent so far
    now,      \* time.time()
    pc,       \* position of the polling loop: "cycle", "check" or "sleep"; "raised"
              \* once an exception has left it
    ret,      \* value of `_read_data() and _decode_data()` in the last cycle
    before,   \* sma and ser as the last cycle found them, kept up to the check
    stream,   \* the byte sequence a streaming run feeds (empty in the other runs)
    script    \* a run of one of the command-line scripts (firmware updater, log
              \* retriever, debug commander); None in the runs of the decoder

vars == <<sma, ser, present, wire, sent, now, pc, ret, before, stream, script>>

----------------------------------------------------------------------------
(* Bounds of the model *)

MaxTime == 9        \* the clock stops here
MaxFrames == 2      \* frames the device sends to a registered decoder in one run
MaxLifeFrames == 2  \* frames the device sends in one run that starts at construction
MaxLossFrames == 2  \* frames the device sends in one run with transport losses

----------------------------------------------------------------------------
(* Protocol constants *)

Marker == 42        \* b'*'
CmdA == 65          \* b'A'
CmdB == 66          \* b'B'
CmdC == 67          \* b'C'
CmdD == 68          \* b'D'
CmdE == 69          \* b'E'
CR == 13
LF == 10
LenC == 41          \* struct "=2B3B9I"
LenD == 49          \* struct "=2B3B9I2I"
LenReg == 13        \* 2-byte header + 11 serial bytes
RegisterCooldown == 2
StaleAfter == 5

\* Python None, and a value that is present
None == <<>>
Some(x) == <<x>>

PortName == "/dev/ttyACM0"
RegisterRequest == <<Marker, CmdA, LF>>   \* b'*A\n'

----------------------------------------------------------------------------
(* Python bytes helpers *)

Min(a, b) == IF a < b THEN a ELSE b

\* s[a:b] on a bytes object (0-based, clipped)
PySlice(s, a, b) ==
    IF a >= Min(b, Len(s)) THEN <<>> ELSE SubSeq(s, a + 1, Min(b, Len(s)))

\* s[a:]
PyFrom(s, a) == PySlice(s, a, Len(s))

\* position (1-based) of the first b"\r\n" in s, 0 when there is none
FindCRLF(s) ==
    LET hits == {i \in 1..(Len(s) - 1) : s[i] = CR /\ s[i + 1] = LF}
    IN IF hits = {} THEN 0 ELSE CHOOSE i \in hits : \A j \in hits : i <= j

RECURSIVE PySplit(_)
\* s.split(b"\r\n")
PySplit(s) ==
    LET i == FindCRLF(s)
    IN IF i = 0 THEN <<s>>
       ELSE <<SubSeq(s, 1, i - 1)>> \o PySplit(SubSeq(s, i + 2, Len(s)))

\* one "I" field of struct.unpack: 4 bytes, little-endian
U32(b) == b[1] + 256 * b[2] + 65536 * b[3] + 16777216 * b[4]

\* struct.pack("I", v), what the device firmware puts on the wire
Pack32(v) ==
    <<v % 256, (v \div 256) % 256, (v \div 65536) % 256, (v \div 16777216) % 256>>

\* struct.unpack(fmt, b) raises struct.error unless b has the size of fmt
StructRaises(size, b) == Len(b) # size

\* b[i] (0-based) raises IndexError outside b
IndexRaises(b, i) == i >= Len(b)

\* an exception leaves the call: what was assigned stays, nothing is returned
Raise(self) == [self |-> self, ret |-> FALSE, raised |-> TRUE]
Raised(r) == "raised" \in DOMAIN r

----------------------------------------------------------------------------
(* VictronSerialAmpsAndVoltage *)

\* VictronSerialAmpsAndVoltage.__init__
NewMMData ==
    [command |-> 0, export_CT1 |-> FALSE, export_CT2 |-> FALSE, export_CT3 |-> FALSE,
     I1 |-> 0, I2 |-> 0, I3 |-> 0, U1 |-> 0, U2 |-> 0, U3 |-> 0,
     P1 |-> 0, P2 |-> 0, P3 |-> 0, energy_forward |-> 0, energy_reverse |-> 0]

\* mutant: the energy counters are zeroed with the phase values
set_all_to_zero_energy(m) ==
    [m EXCEPT !.I1 = 0, !.I2 = 0, !.I3 = 0, !.U1 = 0, !.U2 = 0, !.U3 = 0,
              !.P1 = 0, !.P2 = 0, !.P3 = 0, !.energy_forward = 0, !.energy_reverse = 0]

\* mutant: only the three currents are zeroed
set_all_to_zero_currents(m) == [m EXCEPT !.I1 = 0, !.I2 = 0, !.I3 = 0]

\* VictronSerialAmpsAndVoltage.set_all_to_zero
set_all_to_zero(m) ==
    [m EXCEPT !.I1 = 0, !.I2 = 0, !.I3 = 0, !.U1 = 0, !.U2 = 0, !.U3 = 0,
              !.P1 = 0, !.P2 = 0, !.P3 = 0]

\* mutant: the voltages are taken from the fields of the currents and back
UnpackC_swapped(m, d) ==
    [m EXCEPT !.command = d[2],
              !.export_CT1 = (d[3] # 0), !.export_CT2 = (d[4] # 0),
              !.export_CT3 = (d[5] # 0),
              !.U1 = U32(SubSeq(d, 6, 9)),   !.U2 = U32(SubSeq(d, 10, 13)),
              !.U3 = U32(SubSeq(d, 14, 17)), !.I1 = U32(SubSeq(d, 18, 21)),
              !.I2 = U32(SubSeq(d, 22, 25)), !.I3 = U32(SubSeq(d, 26, 29)),
              !.P1 = U32(SubSeq(d, 30, 33)), !.P2 = U32(SubSeq(d, 34, 37)),
              !.P3 = U32(SubSeq(d, 38, 41))]

\* the assignments of the *C branch: unpacked_data[1..13] of "=2B3B9I"
UnpackC(m, d) ==
    [m EXCEPT !.command = d[2],
              !.export_CT1 = (d[3] # 0), !.export_CT2 = (d[4] # 0),
              !.export_CT3 = (d[5] # 0),
              !.I1 = U32(SubSeq(d, 6, 9)),   !.I2 = U32(SubSeq(d, 10, 13)),
              !.I3 = U32(SubSeq(d, 14, 17)), !.U1 = U32(SubSeq(d, 18, 21)),
              !.U2 = U32(SubSeq(d, 22, 25)), !.U3 = U32(SubSeq(d, 26, 29)),
              !.P1 = U32(SubSeq(d, 30, 33)), !.P2 = U32(SubSeq(d, 34, 37)),
              !.P3 = U32(SubSeq(d, 38, 41))]

\* the assignments of the *D branch: those of *C plus unpacked_data[14..15]
UnpackD(m, d) ==
    [UnpackC(m, d) EXCEPT !.energy_forward = U32(SubSeq(d, 42, 45)),
                          !.energy_reverse = U32(SubSeq(d, 46, 49))]

----------------------------------------------------------------------------
(* ModuleM *)

\* ModuleM.__init__ at time t (ser is modelled apart)
NewModuleM(t) ==
    [datagram |-> <<>>, serialnumber |-> None, mmdata |-> NewMMData,
     mmregistered |-> FALSE, last_update |-> t,
     mmregistered_last_register_request |-> t,
     new_port_name |-> FALSE, new_serialnumber |-> FALSE,
     errors |-> <<>>, errors_show_index |-> 0]

\* `self.datagram[0] != b'*'`: indexing bytes yields an int, and an int never
\* equals a bytes object, so the comparison is True for every byte
IntNeBytes(i, b) == TRUE

\* mutant: an `if` in place of the `while`, one garbage byte dropped per call
StripGarbage_once(d) ==
    IF Len(d) > 1 /\ PySlice(d, 0, 1) # <<Marker>> THEN PyFrom(d, 1) ELSE d

RECURSIVE StripGarbage(_)
\* while len(self.datagram) > 1 and self.datagram[:1] != b'*': drop one byte
StripGarbage(d) ==
    IF Len(d) > 1 /\ PySlice(d, 0, 1) # <<Marker>> THEN StripGarbage(PyFrom(d, 1))
    ELSE d

\* the tail of _read_data: garbage removal on the buffer d, [datagram, ret]
Resync(d) ==
    LET g == StripGarbage(d)
    IN IF Len(g) = 1 /\ IndexRaises(g, 0)
       THEN [datagram |-> g, ret |-> FALSE, raised |-> TRUE]
       ELSE IF Len(g) = 1 /\ IntNeBytes(g[1], <<Marker>>)
       THEN [datagram |-> <<>>, ret |-> FALSE]
       ELSE [datagram |-> g, ret |-> TRUE]

RECURSIVE SkipToB(_)
\* while len(self.datagram) > 2 and self.datagram[:2] != b'*B': drop one byte
SkipToB(d) ==
    IF Len(d) > 2 /\ PySlice(d, 0, 2) # <<Marker, CmdB>> THEN SkipToB(PyFrom(d, 1))
    ELSE d

\* mutant: the serial number sliced one byte early
DecodeUnregistered_early(self) ==
    LET d == SkipToB(self.datagram)
    IN IF Len(d) >= LenReg
       THEN [self |-> [self EXCEPT !.mmregistered = TRUE,
                                   !.datagram = PySlice(d, 1, 12),
                                   !.serialnumber = Some(PySlice(d, 1, 12)),
                                   !.new_serialnumber = TRUE],
             ret |-> FALSE]
       ELSE [self |-> [self EXCEPT !.datagram = <<>>], ret |-> FALSE]

\* mutant: the capture of the registration returns True
DecodeUnregistered_true(self) ==
    LET d == SkipToB(self.datagram)
    IN IF Len(d) >= LenReg
       THEN [self |-> [self EXCEPT !.mmregistered = TRUE,
                                   !.datagram = PySlice(d, 2, 13),
                                   !.serialnumber = Some(PySlice(d, 2, 13)),
                                   !.new_serialnumber = TRUE],
             ret |-> TRUE]
       ELSE [self |-> [self EXCEPT !.datagram = <<>>], ret |-> FALSE]

\* mutant: the length test is off by one, 10 serial bytes are enough
DecodeUnregistered_short(self) ==
    LET d == SkipToB(self.datagram)
    IN IF Len(d) >= LenReg - 1
       THEN [self |-> [self EXCEPT !.mmregistered = TRUE,
                                   !.datagram = PySlice(d, 2, 13),
                                   !.serialnumber = Some(PySlice(d, 2, 13)),
                                   !.new_serialnumber = TRUE],
             ret |-> FALSE]
       ELSE [self |-> [self EXCEPT !.datagram = <<>>], ret |-> FALSE]

\* mutant: a confirmation frame that is not whole yet is waited for
DecodeUnregistered_wait(self) ==
    LET d == SkipToB(self.datagram)
    IN IF Len(d) >= LenReg
       THEN [self |-> [self EXCEPT !.mmregistered = TRUE,
                                   !.datagram = PySlice(d, 2, 13),
                                   !.serialnumber = Some(PySlice(d, 2, 13)),
                                   !.new_serialnumber = TRUE],
             ret |-> FALSE]
       ELSE [self |-> [self EXCEPT !.datagram = d], ret |-> FALSE]

\* _decode_data, the `if not self.mmregistered:` block
DecodeUnregistered(self) ==
    LET d == SkipToB(self.datagram)
    IN IF Len(d) >= LenReg
       THEN [self |-> [self EXCEPT !.mmregistered = TRUE,
                                   !.datagram = PySlice(d, 2, 13),
                                   !.serialnumber = Some(PySlice(d, 2, 13)),
                                   !.new_serialnumber = TRUE],
             ret |-> FALSE]
       ELSE [self |-> [self EXCEPT !.datagram = <<>>], ret |-> FALSE]

\* mutant: a record of no known kind is left in the buffer
DecodeUnknown_keep(self) ==
    [self |-> self, ret |-> FALSE]

\* _decode_data, the final `unknown command` fall-through
DecodeUnknown(self) ==
    [self |-> [self EXCEPT !.datagram = <<>>], ret |-> FALSE]

\* mutant: an incomplete record is thrown away instead of waited for
DecodeC_drop(self) ==
    IF Len(self.datagram) < LenC THEN [self |-> [self EXCEPT !.datagram = <<>>], ret |-> FALSE]
    ELSE [self |-> [self EXCEPT !.mmdata = UnpackC(@, PySlice(self.datagram, 0, 41)),
                                !.datagram = PyFrom(self.datagram, 41)],
          ret |-> TRUE]

\* mutant: no length test before the unpack
DecodeC_unguarded(self) ==
    IF StructRaises(LenC, PySlice(self.datagram, 0, 41)) THEN Raise(self)
    ELSE [self |-> [self EXCEPT !.mmdata = UnpackC(@, PySlice(self.datagram, 0, 41)),
                                !.datagram = PyFrom(self.datagram, 41)],
          ret |-> TRUE]

\* mutant: a decoded record takes the rest of the buffer with it
DecodeC_flush(self) ==
    IF Len(self.datagram) < LenC THEN [self |-> self, ret |-> FALSE]
    ELSE [self |-> [self EXCEPT !.mmdata = UnpackC(@, PySlice(self.datagram, 0, 41)),
                                !.datagram = <<>>],
          ret |-> TRUE]

\* _decode_data, the *C block
DecodeC(self) ==
    IF Len(self.datagram) < LenC THEN [self |-> self, ret |-> FALSE]
    ELSE IF StructRaises(LenC, PySlice(self.datagram, 0, 41)) THEN Raise(self)
    ELSE [self |-> [self EXCEPT !.mmdata = UnpackC(@, PySlice(self.datagram, 0, 41)),
                                !.datagram = PyFrom(self.datagram, 41)],
          ret |-> TRUE]

\* _decode_data, the *D block
DecodeD(self) ==
    IF Len(self.datagram) < LenD THEN [self |-> self, ret |-> FALSE]
    ELSE IF StructRaises(LenD, PySlice(self.datagram, 0, 49)) THEN Raise(self)
    ELSE [self |-> [self EXCEPT !.mmdata = UnpackD(@, PySlice(self.datagram, 0, 49)),
                                !.datagram = PyFrom(self.datagram, 41)],
          ret |-> TRUE]

\* _decode_data from the *C test on (reached by every registered buffer that
\* did not return inside the *E block)
DecodeCD(self) ==
    IF PySlice(self.datagram, 0, 2) = <<Marker, CmdC>> THEN DecodeC(self)
    ELSE IF PySlice(self.datagram, 0, 2) = <<Marker, CmdD>> THEN DecodeD(self)
    ELSE DecodeUnknown(self)

\* mutant: an empty error record empties the whole buffer
DecodeE_flush(self) ==
    IF Len(self.datagram) < 3 THEN [self |-> self, ret |-> FALSE]
    ELSE IF self.datagram[3] = 0
    THEN [self |-> [self EXCEPT !.errors = <<>>, !.datagram = <<>>], ret |-> FALSE]
    ELSE LET lines == PySplit(self.datagram)
             n == self.datagram[3]
         IN IF Len(lines) < n THEN [self |-> self, ret |-> FALSE]
            ELSE DecodeCD([self EXCEPT
                     !.errors = SubSeq([lines EXCEPT ![1] = PyFrom(@, 3)], 1, n),
                     !.datagram = <<>>])

\* mutant: every segment is stored, not the first N
DecodeE_all(self) ==
    IF Len(self.datagram) < 3 THEN [self |-> self, ret |-> FALSE]
    ELSE IF self.datagram[3] = 0
    THEN [self |-> [self EXCEPT !.errors = <<>>, !.datagram = PyFrom(self.datagram, 3)],
          ret |-> FALSE]
    ELSE LET lines == PySplit(self.datagram)
             n == self.datagram[3]
         IN IF Len(lines) < n THEN [self |-> self, ret |-> FALSE]
            ELSE DecodeCD([self EXCEPT
                     !.errors = [lines EXCEPT ![1] = PyFrom(@, 3)],
                     !.datagram = <<>>])

\* mutant: the lines that are there are stored without waiting for the rest
DecodeE_partial(self) ==
    IF Len(self.datagram) < 3 THEN [self |-> self, ret |-> FALSE]
    ELSE IF self.datagram[3] = 0
    THEN [self |-> [self EXCEPT !.errors = <<>>, !.datagram = PyFrom(self.datagram, 3)],
          ret |-> FALSE]
    ELSE LET lines == PySplit(self.datagram)
             n == self.datagram[3]
         IN DecodeCD([self EXCEPT
                !.errors = SubSeq([lines EXCEPT ![1] = PyFrom(@, 3)], 1, Min(n, Len(lines))),
                !.datagram = <<>>])

\* _decode_data, the *E block; it falls through to the *C test once it has
\* stored the error lines
DecodeE(self) ==
    IF Len(self.datagram) < 3 THEN [self |-> self, ret |-> FALSE]
    ELSE IF StructRaises(3, PySlice(self.datagram, 0, 3)) THEN Raise(self)
    ELSE IF self.datagram[3] = 0
    THEN [self |-> [self EXCEPT !.errors = <<>>, !.datagram = PyFrom(self.datagram, 3)],
          ret |-> FALSE]
    ELSE LET lines == PySplit(self.datagram)
             n == self.datagram[3]
         IN IF Len(lines) < n THEN [self |-> self, ret |-> FALSE]
            ELSE DecodeCD([self EXCEPT
                     !.errors = SubSeq([lines EXCEPT ![1] = PyFrom(@, 3)], 1, n),
                     !.datagram = <<>>])

\* mutant: no registration test, telemetry is decoded in any state
_decode_data_nogate(self, t) ==
    IF PySlice(self.datagram, 0, 1) # <<Marker>>
    THEN [self |-> [self EXCEPT !.datagram = PyFrom(@, 1)], ret |-> FALSE]
    ELSE IF PySlice(self.datagram, 1, 2) \notin {<<CmdB>>, <<CmdC>>, <<CmdD>>, <<CmdE>>}
    THEN [self |-> [self EXCEPT !.datagram = PyFrom(@, 2)], ret |-> FALSE]
    ELSE LET s1 == [self EXCEPT !.last_update = t]
         IN IF PySlice(s1.datagram, 0, 2) = <<Marker, CmdE>> THEN DecodeE(s1)
            ELSE DecodeCD(s1)

\* mutant: an unrecognised command drops the marker only
_decode_data_onebyte(self, t) ==
    IF PySlice(self.datagram, 0, 1) # <<Marker>>
    THEN [self |-> [self EXCEPT !.datagram = PyFrom(@, 1)], ret |-> FALSE]
    ELSE IF PySlice(self.datagram, 1, 2) \notin {<<CmdB>>, <<CmdC>>, <<CmdD>>, <<CmdE>>}
    THEN [self |-> [self EXCEPT !.datagram = PyFrom(@, 1)], ret |-> FALSE]
    ELSE LET s1 == [self EXCEPT !.last_update = t]
         IN IF ~s1.mmregistered THEN DecodeUnregistered(s1)
            ELSE IF PySlice(s1.datagram, 0, 2) = <<Marker, CmdE>> THEN DecodeE(s1)
            ELSE DecodeCD(s1)

\* mutant: a confirmation frame is taken in any registration state
_decode_data_rereg(self, t) ==
    IF PySlice(self.datagram, 0, 1) # <<Marker>>
    THEN [self |-> [self EXCEPT !.datagram = PyFrom(@, 1)], ret |-> FALSE]
    ELSE IF PySlice(self.datagram, 1, 2) \notin {<<CmdB>>, <<CmdC>>, <<CmdD>>, <<CmdE>>}
    THEN [self |-> [self EXCEPT !.datagram = PyFrom(@, 2)], ret |-> FALSE]
    ELSE LET s1 == [self EXCEPT !.last_update = t]
         IN IF ~s1.mmregistered \/ PySlice(s1.datagram, 0, 2) = <<Marker, CmdB>>
            THEN DecodeUnregistered(s1)
            ELSE IF PySlice(s1.datagram, 0, 2) = <<Marker, CmdE>> THEN DecodeE(s1)
            ELSE DecodeCD(s1)

\* ModuleM._decode_data at time t: [self, ret]
_decode_data(self, t) ==
    IF PySlice(self.datagram, 0, 1) # <<Marker>>
    THEN [self |-> [self EXCEPT !.datagram = PyFrom(@, 1)], ret |-> FALSE]
    ELSE IF PySlice(self.datagram, 1, 2) \notin {<<CmdB>>, <<CmdC>>, <<CmdD>>, <<CmdE>>}
    THEN [self |-> [self EXCEPT !.datagram = PyFrom(@, 2)], ret |-> FALSE]
    ELSE LET s1 == [self EXCEPT !.last_update = t]
         IN IF ~s1.mmregistered THEN DecodeUnregistered(s1)
            ELSE IF PySlice(s1.datagram, 0, 2) = <<Marker, CmdE>> THEN DecodeE(s1)
            ELSE DecodeCD(s1)

----------------------------------------------------------------------------
(* serial.Serial: the handle and the OS buffers behind it *)

\* serial.Serial(None, 9600, timeout=0, ...): no port, not open
NewSerial == [port |-> None, is_open |-> FALSE, alive |-> FALSE, rx |-> <<>>, tx |-> <<>>]

\* ser.in_waiting raises when the port is not open or its device is gone
InWaitingRaises(s) == ~(s.is_open /\ s.alive)

\* ser.close(): the input buffer goes with the file descriptor
SerClose(s) == [s EXCEPT !.is_open = FALSE, !.alive = FALSE, !.rx = <<>>]

\* ser.port = port_name; ser.open()
SerOpen(s) == [s EXCEPT !.port = Some(PortName), !.is_open = TRUE, !.alive = TRUE, !.rx = <<>>]

\* mutant: a short write, the last byte of the message never leaves
SerWrite_short(s, msg, wfail) ==
    IF wfail THEN s ELSE [s EXCEPT !.tx = Append(@, SubSeq(msg, 1, Len(msg) - 1))]

\* ser.write(b'*A\n'); wfail: the write raises serial.SerialException
SerWrite(s, msg, wfail) == IF wfail THEN s ELSE [s EXCEPT !.tx = Append(@, msg)]

\* mutant: the request is made in any registration state
ReadTail_anystate(self, s, t, wfail) ==
    IF t - self.mmregistered_last_register_request > RegisterCooldown
    THEN [self |-> [self EXCEPT !.mmregistered_last_register_request = t],
          ser |-> SerWrite(s, RegisterRequest, wfail), ret |-> FALSE]
    ELSE IF ~(Len(s.rx) > 0) /\ self.datagram = <<>>
    THEN [self |-> self, ser |-> s, ret |-> FALSE]
    ELSE LET r == Resync(self.datagram \o s.rx)
         IN [self |-> [self EXCEPT !.datagram = r.datagram],
             ser |-> [s EXCEPT !.rx = <<>>], ret |-> r.ret]

\* mutant: the request goes out from exactly 2 units on
ReadTail_atleast(self, s, t, wfail) ==
    IF ~self.mmregistered /\ t - self.mmregistered_last_register_request >= RegisterCooldown
    THEN [self |-> [self EXCEPT !.mmregistered_last_register_request = t],
          ser |-> SerWrite(s, RegisterRequest, wfail), ret |-> FALSE]
    ELSE IF ~(Len(s.rx) > 0) /\ self.datagram = <<>>
    THEN [self |-> self, ser |-> s, ret |-> FALSE]
    ELSE LET r == Resync(self.datagram \o s.rx)
         IN [self |-> [self EXCEPT !.datagram = r.datagram],
             ser |-> [s EXCEPT !.rx = <<>>], ret |-> r.ret]

\* mutant: the exception of a failed write is not caught
ReadTail_uncaught(self, s, t, wfail) ==
    IF ~self.mmregistered /\ t - self.mmregistered_last_register_request > RegisterCooldown
    THEN IF wfail
         THEN [self |-> [self EXCEPT !.mmregistered_last_register_request = t],
               ser |-> s, ret |-> FALSE, raised |-> TRUE]
         ELSE [self |-> [self EXCEPT !.mmregistered_last_register_request = t],
               ser |-> SerWrite(s, RegisterRequest, wfail), ret |-> FALSE]
    ELSE IF ~(Len(s.rx) > 0) /\ self.datagram = <<>>
    THEN [self |-> self, ser |-> s, ret |-> FALSE]
    ELSE LET r == Resync(self.datagram \o s.rx)
             self1 == [self EXCEPT !.datagram = r.datagram]
             s1 == [s EXCEPT !.rx = <<>>]
         IN IF Raised(r) THEN [self |-> self1, ser |-> s1, ret |-> FALSE, raised |-> TRUE]
            ELSE [self |-> self1, ser |-> s1, ret |-> r.ret]

\* _read_data from `if not self.mmregistered and ...` on, the port being readable
ReadTail(self, s, t, wfail) ==
    IF ~self.mmregistered /\ t - self.mmregistered_last_register_request > RegisterCooldown
    THEN [self |-> [self EXCEPT !.mmregistered_last_register_request = t],
          ser |-> SerWrite(s, RegisterRequest, wfail), ret |-> FALSE]
    ELSE IF ~(Len(s.rx) > 0) /\ self.datagram = <<>>
    THEN [self |-> self, ser |-> s, ret |-> FALSE]
    ELSE LET r == Resync(self.datagram \o s.rx)
             self1 == [self EXCEPT !.datagram = r.datagram]
             s1 == [s EXCEPT !.rx = <<>>]
         IN IF Raised(r) THEN [self |-> self1, ser |-> s1, ret |-> FALSE, raised |-> TRUE]
            ELSE [self |-> self1, ser |-> s1, ret |-> r.ret]

\* mutant: a transport failure forgets the serial number
_read_data_forget(self, s, pres, t, wfail) ==
    IF InWaitingRaises(s)
    THEN LET self1 == [self EXCEPT !.mmregistered = FALSE, !.serialnumber = None]
             s1 == IF s.port # None /\ s.is_open THEN SerClose(s) ELSE s
         IN IF pres
            THEN ReadTail([self1 EXCEPT !.new_port_name = TRUE], SerOpen(s1), t, wfail)
            ELSE [self |-> self1, ser |-> s1, ret |-> FALSE]
    ELSE ReadTail(self, s, t, wfail)

\* mutant: a transport failure empties the error list
_read_data_noerrors(self, s, pres, t, wfail) ==
    IF InWaitingRaises(s)
    THEN LET self1 == [self EXCEPT !.mmregistered = FALSE, !.errors = <<>>]
             s1 == IF s.port # None /\ s.is_open THEN SerClose(s) ELSE s
         IN IF pres
            THEN ReadTail([self1 EXCEPT !.new_port_name = TRUE], SerOpen(s1), t, wfail)
            ELSE [self |-> self1, ser |-> s1, ret |-> FALSE]
    ELSE ReadTail(self, s, t, wfail)

\* ModuleM._read_data at time t: [self, ser, ret]; pres: comports() lists the device
_read_data(self, s, pres, t, wfail) ==
    IF InWaitingRaises(s)
    THEN LET self1 == [self EXCEPT !.mmregistered = FALSE]
             s1 == IF s.port # None /\ s.is_open THEN SerClose(s) ELSE s
         IN IF pres
            THEN ReadTail([self1 EXCEPT !.new_port_name = TRUE], SerOpen(s1), t, wfail)
            ELSE [self |-> self1, ser |-> s1, ret |-> FALSE]
    ELSE ReadTail(self, s, t, wfail)

\* `sma._read_data() and sma._decode_data()`: [self, ser, ret]
PollCycle(self, s, pres, t, wfail) ==
    LET r == _read_data(self, s, pres, t, wfail)
    IN IF Raised(r) THEN r
       ELSE IF r.ret
       THEN LET d == _decode_data(r.self, t)
            IN IF Raised(d)
               THEN [self |-> d.self, ser |-> r.ser, ret |-> FALSE, raised |-> TRUE]
               ELSE [self |-> d.self, ser |-> r.ser, ret |-> d.ret]
       ELSE r

\* mutant: stale from exactly 5 units on
IsStale_from5(last_update, t) == last_update + StaleAfter <= t

\* `sma.last_update + 5 < time.time()` of the polling loop
IsStale(last_update, t) == last_update + StaleAfter < t

----------------------------------------------------------------------------
(* The device: what the firmware puts on the wire *)

\* the nine phase values of a record, in wire order, and its three export flags
RecA == [flags |-> <<1, 0, 1>>, vals |-> <<7, 300, 9, 70000, 70001, 70002, 11, 12, 13>>]
RecB == [flags |-> <<0, 1, 0>>, vals |-> <<21, 22, 23, 24, 25, 26, 27, 28, 29>>]
Records == {RecA, RecB}

SerialA == <<49, 50, 51, 52, 53, 54, 55, 56, 57, 48, 49>>
\* a serial number that holds marker and command bytes
SerialB == <<42, 66, 42, 67, 1, 2, 3, 4, 5, 6, 7>>

RECURSIVE PackAll(_)
PackAll(vs) == IF vs = <<>> THEN <<>> ELSE Pack32(Head(vs)) \o PackAll(Tail(vs))

\* struct VictronSerialAmpsAndVoltage
FrameC(r) == <<Marker, CmdC>> \o r.flags \o PackAll(r.vals)
\* struct VictronSerialAmpsVoltageAndEnergy
FrameD(r, ef, er) == <<Marker, CmdD>> \o r.flags \o PackAll(r.vals) \o Pack32(ef) \o Pack32(er)
\* RegisterVictronGXConfirmation
FrameB(sn) == <<Marker, CmdB>> \o sn
\* struct VictronSerialErrorCodes followed by its lines
FrameE0 == <<Marker, CmdE, 0>>
FrameE1 == <<Marker, CmdE, 1, 101, 49, CR, LF>>
FrameE2 == <<Marker, CmdE, 2, 101, 49, CR, LF, 101, 50, CR, LF>>

\* line noise
Garbage == {<<88>>, <<Marker>>, <<Marker, 88>>, <<88, 89>>}

\* the energy records the device sends: phase values and the two counters
DRecords == {[rec |-> RecA, ef |-> 500, er |-> 7], [rec |-> RecB, ef |-> 17194, er |-> 0]}

Serials == {SerialA, SerialB}

\* a frame as the two chunks it arrives in: whole, or cut after its first or
\* before its last byte
Whole(f) == <<f, <<>>>>
Cuts(f) ==
    {<<SubSeq(f, 1, k), SubSeq(f, k + 1, Len(f))>> : k \in {1, Len(f) - 1, Len(f)} \cap 1..Len(f)}

\* what the device sends to a registered decoder; the energy 17194 Wh = 0x432A
\* packs to the bytes of "*C"
Frames ==
    {FrameB(SerialA), FrameE0, FrameE1, FrameE2}
    \cup {FrameC(r) : r \in Records}
    \cup {FrameD(d.rec, d.ef, d.er) : d \in DRecords}
    \cup Garbage

Sends == UNION {Cuts(f) : f \in Frames}

\* what the device sends in a run that starts at construction
LifeSends ==
    Cuts(FrameB(SerialA))
    \cup {Whole(f) : f \in {FrameB(SerialB), FrameC(RecA), FrameD(RecA, 500, 7),
                              FrameE1, <<88>>}}

----------------------------------------------------------------------------
(* The system: polling loop of __main__, the clock, the device.  A cycle   *)
(* and its check take no time, so the device and the consumer of the       *)
(* signals act while the loop sleeps.                                      *)

Init ==
    /\ sma = NewModuleM(0)
    /\ ser = NewSerial
    /\ present \in BOOLEAN
    /\ wire = <<>>
    /\ sent = 0
    /\ now = 0
    /\ pc = "cycle"
    /\ ret = FALSE
    /\ before = None
    /\ script = None
    /\ stream = <<>>

\* one `_read_data() and _decode_data()`, the loop going on at `next`; an
\* exception that leaves the cycle ends the program
CycleTo(next) ==
    /\ pc = "cycle"
    /\ \E wfail \in BOOLEAN :
         LET r == PollCycle(sma, ser, present, now, wfail)
         IN /\ sma' = r.self
            /\ ser' = r.ser
            /\ ret' = IF Raised(r) THEN ret ELSE r.ret
            /\ pc' = IF Raised(r) THEN "raised" ELSE next
    /\ before' = [sma |-> sma, ser |-> ser]
    /\ UNCHANGED <<present, wire, sent, now, stream, script>>

\* `if sma._read_data() and sma._decode_data():` of the loop of __main__
Cycle == CycleTo("check")

\* the else branch of the loop: zero the phase values when nothing was decoded
\* and the last update is older than 5 seconds
StaleCheck ==
    /\ pc = "check"
    /\ sma' = IF ~ret /\ IsStale(sma.last_update, now)
              THEN [sma EXCEPT !.mmdata = set_all_to_zero(@)]
              ELSE sma
    /\ before' = None
    /\ pc' = "sleep"
    /\ UNCHANGED <<ser, present, wire, sent, now, ret, stream, script>>

\* time.sleep(1) at the end of a loop iteration; what was written to the port
\* has left the output buffer by then
Sleep ==
    /\ pc = "sleep"
    /\ now < MaxTime
    /\ now' = now + 1
    /\ ser' = [ser EXCEPT !.tx = <<>>]
    /\ pc' = "cycle"
    /\ UNCHANGED <<sma, present, wire, sent, ret, before, stream, script>>

\* the device is plugged in
Plug ==
    /\ pc = "sleep"
    /\ ~present
    /\ present' = TRUE
    /\ UNCHANGED <<sma, ser, wire, sent, now, pc, ret, before, stream, script>>

\* the device is pulled: the open handle dies, bytes in flight are lost
Unplug ==
    /\ pc = "sleep"
    /\ present
    /\ present' = FALSE
    /\ ser' = [ser EXCEPT !.alive = FALSE]
    /\ wire' = <<>>
    /\ UNCHANGED <<sma, sent, now, pc, ret, before, stream, script>>

\* the device sends a frame of the menu: the first chunk reaches the input
\* buffer of the port at once, the rest stays on the wire
SendFrom(menu, limit) ==
    /\ pc = "sleep"
    /\ present /\ ser.is_open /\ ser.alive
    /\ wire = <<>>
    /\ sent < limit
    /\ \E c \in menu :
         /\ ser' = [ser EXCEPT !.rx = @ \o c[1]]
         /\ wire' = c[2]
    /\ sent' = sent + 1
    /\ UNCHANGED <<sma, present, now, pc, ret, before, stream, script>>

\* the device sends any frame, to a decoder in any state
SendLife == SendFrom(LifeSends, MaxLifeFrames)

\* the device sends any frame or noise, to a registered decoder
Send == SendFrom(Sends, MaxFrames)

\* the rest of the frame reaches the input buffer of the port
Deliver ==
    /\ pc = "sleep"
    /\ wire # <<>>
    /\ ser' = [ser EXCEPT !.rx = @ \o wire]
    /\ wire' = <<>>
    /\ UNCHANGED <<sma, present, sent, now, pc, ret, before, stream, script>>

\* dbus-homemanager reads the communication signals and clears them
ReadSignals ==
    /\ pc = "sleep"
    /\ sma.new_port_name \/ sma.new_serialnumber
    /\ sma' = [sma EXCEPT !.new_port_name = FALSE, !.new_serialnumber = FALSE]
    /\ UNCHANGED <<ser, present, wire, sent, now, pc, ret, before, stream, script>>

Next ==
    \/ Cycle
    \/ StaleCheck
    \/ Sleep
    \/ Plug
    \/ Unplug
    \/ SendLife
    \/ Deliver
    \/ ReadSignals

\* the program from the construction of the ModuleM on
Spec == Init /\ [][Next]_vars

----------------------------------------------------------------------------
(* The registered decoder: the state the loop is in after it opened the    *)
(* port at time 0, read the confirmation frame *B at time 1 and dropped    *)
(* the serial number bytes from the buffer at time 2, the signals read     *)

RegisteredIdle ==
    [NewModuleM(0) EXCEPT !.mmregistered = TRUE, !.serialnumber = Some(SerialA),
                          !.last_update = 1]

InitDecode ==
    /\ sma = RegisteredIdle
    /\ ser = SerOpen(NewSerial)
    /\ present = TRUE
    /\ wire = <<>>
    /\ sent = 0
    /\ now = 2
    /\ pc = "sleep"
    /\ ret = FALSE
    /\ before = None
    /\ script = None
    /\ stream = <<>>

NextDecode ==
    \/ Cycle
    \/ StaleCheck
    \/ Sleep
    \/ Send
    \/ Deliver

\* the registered decoder fed frames and noise, the transport staying up
SpecDecode == InitDecode /\ [][NextDecode]_vars

\* Spec violates this: the start of SpecDecode is a state of Spec
NeverRegisteredIdle ==
    ~(sma = RegisteredIdle /\ ser = SerOpen(NewSerial) /\ present /\ wire = <<>>
      /\ now = 2 /\ pc = "sleep" /\ ret = FALSE)

----------------------------------------------------------------------------
(* The registered decoder and a transport that comes and goes: the device  *)
(* sends a record, whole or in two chunks, or a confirmation frame, and is *)
(* pulled and plugged in again at any time.                                *)

LossSends == Cuts(FrameC(RecA)) \cup {Whole(FrameB(SerialB))}

SendLoss == SendFrom(LossSends, MaxLossFrames)

NextLoss ==
    \/ Cycle
    \/ StaleCheck
    \/ Sleep
    \/ Plug
    \/ Unplug
    \/ SendLoss
    \/ Deliver

SpecLoss == InitDecode /\ [][NextLoss]_vars

----------------------------------------------------------------------------
(* The registered decoder polled by gridconnection_watcher.py, which sleeps *)
(* 0.3 s between two cycles and makes no staleness check: a byte stream    *)
(* reaches the port one chunk per cycle, within one unit of the clock.     *)

Streams ==
    {FrameC(RecA),
     <<88, 89>> \o FrameC(RecA),
     FrameC(RecA) \o FrameC(RecB),
     FrameD(RecA, 500, 7) \o FrameC(RecB),
     FrameD(RecB, 17194, 0) \o FrameC(RecA),
     FrameE1 \o FrameC(RecA)}

InitStream ==
    /\ sma = RegisteredIdle
    /\ ser = SerOpen(NewSerial)
    /\ present = TRUE
    /\ stream \in Streams
    /\ wire = stream
    /\ sent = 0
    /\ now = 2
    /\ pc = "sleep"
    /\ ret = FALSE
    /\ before = None
    /\ script = None

\* update() of gridconnection_watcher.py
Update == CycleTo("sleep")

\* the next chunk of the stream arrives during time.sleep(0.3): one byte, one
\* record's length, or all that is left
Feed ==
    /\ pc = "sleep"
    /\ wire # <<>>
    /\ \E k \in {1, LenC, LenD, Len(wire)} :
         /\ k <= Len(wire)
         /\ ser' = [ser EXCEPT !.rx = @ \o SubSeq(wire, 1, k)]
         /\ wire' = SubSeq(wire, k + 1, Len(wire))
    /\ sent' = sent + 1
    /\ pc' = "cycle"
    /\ UNCHANGED <<sma, present, now, ret, before, stream, script>>

\* time.sleep(0.3) once the stream has arrived
Idle ==
    /\ pc = "sleep"
    /\ wire = <<>>
    /\ pc' = "cycle"
    /\ UNCHANGED <<sma, ser, present, wire, sent, now, ret, before, stream, script>>

NextStream ==
    \/ Update
    \/ Feed
    \/ Idle

SpecStream == InitStream /\ [][NextStream]_vars

----------------------------------------------------------------------------
(* One decoder in any state: the buffer holds any beginning of a frame, the *)
(* port has any end of a frame waiting, the decoder is registered or not   *)
(* (its last request 2 or 3 units old), and it is polled with no further   *)
(* input until nothing changes.                                            *)

Prefixes(f) == {SubSeq(f, 1, k) : k \in 0..Len(f)}
Suffixes(f) == {SubSeq(f, k, Len(f)) : k \in 1..(Len(f) + 1)}

AnyFrames ==
    {FrameC(RecA), FrameD(RecB, 17194, 0), FrameE2, FrameB(SerialB), <<Marker, 88, 89>>}

AnyBuffers == UNION {Prefixes(f) : f \in AnyFrames}
AnyChunks == UNION {Suffixes(f) : f \in AnyFrames}
AnyDecoders == {RegisteredIdle, NewModuleM(0), NewModuleM(0 - 1)}

InitAny ==
    /\ sma \in {[m EXCEPT !.datagram = b] : m \in AnyDecoders, b \in AnyBuffers}
    /\ ser \in {[SerOpen(NewSerial) EXCEPT !.rx = c] : c \in AnyChunks}
    /\ present = TRUE
    /\ wire = <<>>
    /\ sent = 0
    /\ now = 2
    /\ pc = "cycle"
    /\ ret = FALSE
    /\ before = None
    /\ script = None
    /\ stream = <<>>

NextAny ==
    \/ Cycle
    \/ StaleCheck
    \/ Idle

SpecAny == InitAny /\ [][NextAny]_vars

----------------------------------------------------------------------------
(* The handshake seen by a caller that polls at its own pace: the loop lets  *)
(* 1 to 4 units pass between two cycles, every write works and the device   *)
(* answers every request it gets with one whole confirmation frame.        *)
(* The clock is read relative to the present instant: letting d units pass *)
(* makes every timestamp of the decoder d units older, and ages beyond     *)
(* StaleAfter + 1 are not told apart (lines 119 and 286 compare ages with  *)
(* 2 and 5 only), which keeps the runs of a loop that never ends finite.   *)

\* the time a caller lets pass between two cycles
PollIntervals == 1..4

\* the confirmation frames the input buffer of the port holds unread; what
\* arrives beyond is lost
MaxUnread == 4

\* the timestamp ts after d more units, on the clock relative to the present
Aged(ts, d) == IF ts - d < 0 THEN 0 ELSE ts - d

InitPoll ==
    /\ sma = NewModuleM(StaleAfter + 1)
    /\ ser = SerOpen(NewSerial)
    /\ present = TRUE
    /\ wire = <<>>
    /\ sent = 0
    /\ now = StaleAfter + 1
    /\ pc = "cycle"
    /\ ret = FALSE
    /\ before = None
    /\ script = None
    /\ stream = <<>>

\* `if sma._read_data() and sma._decode_data():` with a write that works
Poll ==
    /\ pc = "cycle"
    /\ LET r == PollCycle(sma, ser, present, now, FALSE)
       IN /\ sma' = r.self
          /\ ser' = r.ser
          /\ ret' = IF Raised(r) THEN ret ELSE r.ret
          /\ pc' = IF Raised(r) THEN "raised" ELSE "check"
    /\ before' = [sma |-> sma, ser |-> ser]
    /\ UNCHANGED <<present, wire, sent, now, stream, script>>

\* the device takes a request from the output buffer of the port and answers
\* it with a confirmation frame, in one chunk
Answer ==
    /\ pc = "sleep"
    /\ ser.tx # <<>>
    /\ ser' = [ser EXCEPT !.tx = Tail(@),
                          !.rx = IF Len(@) + LenReg <= MaxUnread * LenReg
                                 THEN @ \o FrameB(SerialA) ELSE @]
    /\ UNCHANGED <<sma, present, wire, sent, now, pc, ret, before, stream, script>>

\* time.sleep(...) of the caller's loop, once the device has answered
Wait ==
    /\ pc = "sleep"
    /\ ser.tx = <<>>
    /\ \E d \in PollIntervals :
         sma' = [sma EXCEPT !.last_update = Aged(@, d),
                            !.mmregistered_last_register_request = Aged(@, d)]
    /\ pc' = "cycle"
    /\ UNCHANGED <<ser, present, wire, sent, now, ret, before, stream, script>>

NextPoll ==
    \/ Poll
    \/ StaleCheck
    \/ Answer
    \/ Wait

\* a cycle comes to its end: the step that takes the loop out of "cycle"
PollDone == pc = "cycle" /\ pc' \in {"check", "raised"}

\* the loop never stops, and the device answers
FairPoll ==
    /\ WF_pc(PollDone)
    /\ WF_vars(StaleCheck)
    /\ WF_vars(Answer)
    /\ WF_vars(Wait)

SpecPoll == InitPoll /\ [][NextPoll]_vars /\ FairPoll

----------------------------------------------------------------------------
(* Vocabulary of the properties *)

\* the nine phase values of a MeasurementRecord, in wire order
Phase(m) == <<m.I1, m.I2, m.I3, m.U1, m.U2, m.U3, m.P1, m.P2, m.P3>>
Energy(m) == <<m.energy_forward, m.energy_reverse>>

StartsWith(b, h) == PySlice(b, 0, Len(h)) = h
Bytes(b) == {b[i] : i \in 1..Len(b)}

\* the last step was a cycle whose transport worked, on a (un)registered decoder
Cycled == pc = "check"
CycledRegistered == Cycled /\ before.sma.mmregistered /\ ~InWaitingRaises(before.ser)
CycledUnregistered == Cycled /\ ~before.sma.mmregistered /\ ~InWaitingRaises(before.ser)

\* the buffer as that cycle had it once it had read the port
Buf == before.sma.datagram \o before.ser.rx

\* a cycle that starts with self and s decodes an error record (an empty one,
\* or one with all its lines)
DecodesErrors(self, s) ==
    /\ self.mmregistered /\ ~InWaitingRaises(s)
    /\ LET b == StripGarbage(self.datagram \o s.rx)
       IN /\ StartsWith(b, <<Marker, CmdE>>)
          /\ Len(b) >= 3
          /\ (b[3] = 0 \/ Len(PySplit(b)) >= b[3])

\* that cycle decoded something: a telemetry record, the registration, or an
\* error record
Captured == sma.mmregistered /\ ~before.sma.mmregistered
Decoded == Cycled /\ (ret \/ Captured \/ DecodesErrors(before.sma, before.ser))

\* a streaming run has delivered its stream and polling changes the buffer no more
Quiescent ==
    /\ pc = "sleep" /\ stream # <<>> /\ wire = <<>> /\ ser.rx = <<>>
    /\ PollCycle(sma, ser, present, now, FALSE).self.datagram = sma.datagram

RECURSIVE Settle(_, _, _)
\* cycles from (self, s) on, no byte arriving, until the buffer stops changing
Settle(self, s, fuel) ==
    LET r == PollCycle(self, s, TRUE, 2, FALSE)
    IN IF fuel = 0 \/ (s.rx = <<>> /\ r.self.datagram = self.datagram) THEN r.self
       ELSE Settle(r.self, r.ser, fuel - 1)

\* the decoder after a registered idle decoder got the stream st in one chunk
WholeRun(st) ==
    Settle(RegisteredIdle, [SerOpen(NewSerial) EXCEPT !.rx = st], Len(st) + 2)

RECURSIVE Recovers(_, _, _, _)
\* cycles from (self, s) on, no byte arriving: within fuel cycles that return
\* False one returns True with the phase values of r and an empty buffer
Recovers(self, s, r, fuel) ==
    LET c == PollCycle(self, s, TRUE, now, FALSE)
    IN IF c.ret THEN Phase(c.self.mmdata) = r.vals /\ c.self.datagram = <<>>
       ELSE fuel > 0 /\ Recovers(c.self, c.ser, r, fuel - 1)

\* garbage prefixes of the runs: none, and the noise the device sends
GarbageRuns == Garbage \cup {<<>>}

----------------------------------------------------------------------------
(* C1..C10 *)

\* C1 (as claimed): chunking independence. A registered decoder that got a
\* byte sequence one byte per cycle and was polled until its buffer stopped
\* changing holds the same MeasurementRecord as one that got it in one chunk.
ChunkingIndependence ==
    (Quiescent /\ sent = Len(stream)) => sma.mmdata = WholeRun(stream).mmdata

\* C2 (as claimed): garbage recovery. A registered decoder with an empty
\* buffer that reads any N garbage bytes followed by a well-formed *C record
\* discards the garbage in cycles that return False, and then a cycle returns
\* True with the record's nine values, the buffer empty.
GarbageRecovery ==
    \A g \in GarbageRuns, r \in Records :
        (CycledRegistered /\ before.sma.datagram = <<>> /\ before.ser.rx = g \o FrameC(r))
        => Recovers(before.sma, before.ser, r, Len(g))

\* C2 (amended): the same for garbage that holds no marker byte, read together
\* with the record: that one cycle discards the garbage and returns True with
\* the record's nine values, the buffer empty.
GarbageRecoveryNoMarker ==
    \A g \in GarbageRuns, r \in Records :
        (CycledRegistered /\ before.sma.datagram = <<>> /\ before.ser.rx = g \o FrameC(r)
         /\ Marker \notin Bytes(g))
        => (ret /\ Phase(sma.mmdata) = r.vals /\ sma.datagram = <<>>)

\* C2 witness: two garbage bytes and a record were read and decoded in one cycle
GarbageRecoveryWitness ==
    /\ CycledRegistered /\ before.sma.datagram = <<>>
    /\ before.ser.rx = <<88, 89>> \o FrameC(RecB)
    /\ ret /\ Phase(sma.mmdata) = RecB.vals

\* C3: registration gates telemetry. A cycle that starts unregistered returns
\* False and changes neither mmdata nor errors, whatever it reads.
RegistrationGates ==
    (Cycled /\ ~before.sma.mmregistered)
    => (ret = FALSE /\ sma.mmdata = before.sma.mmdata /\ sma.errors = before.sma.errors)

\* C3 witness: an unregistered decoder read a whole *D record and dropped it
RegistrationGatesWitness ==
    /\ CycledUnregistered /\ before.ser.rx = FrameD(RecA, 500, 7)
    /\ ser.rx = <<>> /\ sma.datagram = <<>> /\ ~sma.mmregistered

\* C4: registration capture. A cycle of an unregistered decoder whose cooldown
\* has not elapsed and that reads *B and 11 bytes into an empty buffer ends
\* registered, serialnumber those 11 bytes, new_serialnumber True; a cycle
\* raises new_serialnumber only if it captures a registration, and no cycle
\* that starts registered with a working transport raises it.
RegistrationCapture ==
    /\ \A sn \in Serials :
        (CycledUnregistered /\ before.sma.datagram = <<>> /\ before.ser.rx = FrameB(sn)
         /\ ~(now - before.sma.mmregistered_last_register_request > RegisterCooldown))
        => (sma.mmregistered /\ sma.serialnumber = Some(sn) /\ sma.new_serialnumber)
    /\ (Cycled /\ sma.new_serialnumber /\ ~before.sma.new_serialnumber)
        => (sma.mmregistered /\ ~CycledRegistered)
    /\ (CycledRegistered /\ sma.new_serialnumber) => before.sma.new_serialnumber

\* C4 witness: the confirmation frame with the second serial number was captured
RegistrationCaptureWitness ==
    /\ CycledUnregistered /\ before.sma.datagram = <<>> /\ before.ser.rx = FrameB(SerialB)
    /\ ~before.sma.new_serialnumber
    /\ sma.mmregistered /\ sma.serialnumber = Some(SerialB) /\ sma.new_serialnumber

\* C5: incomplete frames wait. A registered cycle whose buffer starts with *C
\* and holds fewer than 41 bytes (*D: fewer than 49) returns False, discards
\* nothing and leaves mmdata alone; the cycle that reads the missing bytes of
\* a waiting record returns True with that record's values.
IncompleteWaits ==
    /\ (CycledRegistered
        /\ \/ StartsWith(Buf, <<Marker, CmdC>>) /\ Len(Buf) < LenC
           \/ StartsWith(Buf, <<Marker, CmdD>>) /\ Len(Buf) < LenD)
        => (ret = FALSE /\ sma.datagram = Buf /\ sma.mmdata = before.sma.mmdata)
    /\ \A r \in Records :
        (CycledRegistered /\ Len(before.sma.datagram) \in 2..(LenC - 1)
         /\ StartsWith(FrameC(r), before.sma.datagram) /\ StartsWith(Buf, FrameC(r)))
        => (ret /\ Phase(sma.mmdata) = r.vals)
    /\ \A d \in DRecords :
        (CycledRegistered /\ Len(before.sma.datagram) \in 2..(LenD - 1)
         /\ StartsWith(FrameD(d.rec, d.ef, d.er), before.sma.datagram)
         /\ StartsWith(Buf, FrameD(d.rec, d.ef, d.er)))
        => (ret /\ Phase(sma.mmdata) = d.rec.vals /\ Energy(sma.mmdata) = <<d.ef, d.er>>)

\* C5 witness: 40 bytes of a *C record waited, the 41st arrived, the record decoded
IncompleteWaitsWitness ==
    /\ CycledRegistered /\ Len(before.sma.datagram) = 40 /\ Buf = FrameC(RecA)
    /\ Phase(before.sma.mmdata) # RecA.vals
    /\ ret /\ Phase(sma.mmdata) = RecA.vals

\* C6 (as claimed): D-record byte accounting. A registered cycle that decodes
\* a *D record leaves in the buffer exactly the bytes that followed the 49
\* bytes of the record.
DRecordConsumed ==
    (CycledRegistered /\ StartsWith(Buf, <<Marker, CmdD>>) /\ Len(Buf) >= LenD /\ ret)
    => sma.datagram = PyFrom(Buf, LenD)

\* C7 (as claimed): energy persistence. A registered decoder that got a *D
\* record followed by a *C record in one chunk ends with the phase values of
\* the C record and the energy counters of the D record.
EnergyPersists ==
    \A d \in DRecords, r \in Records :
        (Quiescent /\ sent = 1 /\ stream = FrameD(d.rec, d.ef, d.er) \o FrameC(r))
        => (Phase(sma.mmdata) = r.vals /\ Energy(sma.mmdata) = <<d.ef, d.er>>)

\* C8: energy frame rule. A step changes energy_forward or energy_reverse only
\* if it is a cycle of a registered decoder that returns True on a buffer that
\* starts (behind its garbage) with a whole *D record, and then to the two
\* counters of that record.
EnergyFrameRule ==
    [][Energy(sma'.mmdata) # Energy(sma.mmdata)
       => /\ pc = "cycle" /\ sma.mmregistered /\ ~InWaitingRaises(ser) /\ ret'
          /\ LET b == StripGarbage(sma.datagram \o ser.rx)
             IN /\ StartsWith(b, <<Marker, CmdD>>) /\ Len(b) >= LenD
                /\ Energy(sma'.mmdata) = <<U32(SubSeq(b, 42, 45)), U32(SubSeq(b, 46, 49))>>]_vars

\* C8 witness: a *D record set the counters of a decoder that had none
EnergyFrameRuleWitness ==
    /\ CycledRegistered /\ ret
    /\ Energy(before.sma.mmdata) = <<0, 0>> /\ Energy(sma.mmdata) = <<500, 7>>

\* C9 (as claimed): last_update is refreshed only by a successful decode
\* (registration capture, or a C, D or E record).
RefreshOnlyOnDecode ==
    (Cycled /\ sma.last_update # before.sma.last_update) => Decoded

\* C10: staleness predicate. After a cycle that decoded something (the
\* registration, a C, D or E record) the state is not stale; the check of the
\* loop changes neither last_update nor ret, and it changes the state (zeroing
\* the phase values) only if nothing was decoded and now - last_update > 5,
\* and then it does.
StalenessPredicate ==
    [][/\ (pc = "cycle" /\ (ret' \/ (sma'.mmregistered /\ ~sma.mmregistered)
                              \/ DecodesErrors(sma, ser)))
          => ~(now' - sma'.last_update > StaleAfter)
       /\ pc = "check"
          => /\ sma'.last_update = sma.last_update /\ ret' = ret
             /\ sma' # sma => (~ret /\ now - sma.last_update > StaleAfter)
             /\ (~ret /\ now - sma.last_update > StaleAfter)
                => sma' = [sma EXCEPT !.mmdata = set_all_to_zero(@)]]_vars

\* C10 witness: a stale decoder decoded a record and is fresh again
StalenessPredicateWitness ==
    /\ Cycled /\ ret
    /\ before.sma.last_update + StaleAfter < now
    /\ sma.last_update = now

----------------------------------------------------------------------------
(* C11..C20 *)

Zeros9 == <<0, 0, 0, 0, 0, 0, 0, 0, 0>>

\* C11: zeroing on staleness is partial. The check of the loop leaves
\* energy_forward, energy_reverse and the error list unchanged; it changes
\* mmdata only after a cycle that decoded no record and with last_update more
\* than 5 units old, and then the nine phase values are 0.
ZeroingIsPartial ==
    [][pc = "check"
       => /\ Energy(sma'.mmdata) = Energy(sma.mmdata)
          /\ sma'.errors = sma.errors
          /\ sma'.mmdata # sma.mmdata => (~ret /\ now - sma.last_update > StaleAfter)
          /\ (~ret /\ now - sma.last_update > StaleAfter)
             => Phase(sma'.mmdata) = Zeros9]_vars

\* C11 witness: the phase values of a *D record were zeroed, its counters kept
ZeroingIsPartialWitness ==
    /\ pc = "sleep" /\ now - sma.last_update > StaleAfter
    /\ Phase(sma.mmdata) = Zeros9 /\ Energy(sma.mmdata) = <<500, 7>>

\* C12: empty error record. A registered cycle whose buffer starts with *E
\* and a line count of 0 empties the error list, removes exactly those 3
\* bytes, keeps what follows them in order, and returns False.
EmptyErrorRecord ==
    (CycledRegistered /\ StartsWith(Buf, <<Marker, CmdE, 0>>))
    => (sma.errors = <<>> /\ sma.datagram = PyFrom(Buf, 3) /\ ret = FALSE)

\* C12 witness: an empty error record read together with a *C record was
\* consumed, the record left in the buffer
EmptyErrorRecordWitness ==
    /\ CycledRegistered /\ Buf = FrameE0 \o FrameC(RecA)
    /\ sma.datagram = FrameC(RecA) /\ ret = FALSE

\* the two error lines the device reports
ErrLine1 == <<101, 49>>
ErrLine2 == <<101, 50>>

\* number of b"\r\n" separators in b
NumCRLF(b) == Cardinality({i \in 1..(Len(b) - 1) : b[i] = CR /\ b[i + 1] = LF})

RECURSIVE JoinCRLF(_)
\* the lines ls joined by b"\r\n"
JoinCRLF(ls) ==
    IF ls = <<>> THEN <<>>
    ELSE IF Len(ls) = 1 THEN ls[1]
    ELSE ls[1] \o <<CR, LF>> \o JoinCRLF(Tail(ls))

\* C13: non-empty error record. A registered cycle whose buffer starts with
\* *E and a line count N > 0 and holds at least N CRLF-separated segments
\* (N - 1 separators) replaces the error list by the first N segments, the 3
\* header bytes taken off the first: N lines free of CRLF whose join by CRLF
\* is what follows the header, up to the buffer's end or the next CRLF. It
\* empties the buffer and returns False.
NonEmptyErrorRecord ==
    /\ (CycledRegistered /\ StartsWith(Buf, <<Marker, CmdE>>) /\ Len(Buf) >= 3
        /\ Buf[3] > 0 /\ NumCRLF(Buf) + 1 >= Buf[3])
        => LET j == JoinCRLF(sma.errors)
               rest == PyFrom(Buf, 3 + Len(j))
           IN /\ Len(sma.errors) = Buf[3]
              /\ \A k \in 1..Len(sma.errors) : NumCRLF(sma.errors[k]) = 0
              /\ StartsWith(PyFrom(Buf, 3), j)
              /\ rest = <<>> \/ StartsWith(rest, <<CR, LF>>)
              /\ sma.datagram = <<>>
              /\ ret = FALSE
    /\ (CycledRegistered /\ Buf = FrameE2) => sma.errors = <<ErrLine1, ErrLine2>>
    /\ \A r \in Records :
        (CycledRegistered /\ Buf = FrameE1 \o FrameC(r))
        => (sma.errors = <<ErrLine1>> /\ sma.mmdata = before.sma.mmdata)

\* C13 witness: a one-line error record read together with a *C record set
\* the error list and emptied the buffer
NonEmptyErrorRecordWitness ==
    /\ CycledRegistered /\ Buf = FrameE1 \o FrameC(RecA)
    /\ sma.errors = <<ErrLine1>> /\ sma.datagram = <<>> /\ ret = FALSE

\* the last step was a cycle that came to the registration test of _read_data
\* (the port answered, or was found and opened) with mmregistered False
AtRequestTest ==
    /\ Cycled
    /\ ~InWaitingRaises(before.ser) \/ present
    /\ ~before.sma.mmregistered \/ InWaitingRaises(before.ser)

\* time since the last registration request, as that cycle found it
Elapsed == now - before.sma.mmregistered_last_register_request

\* that cycle made a request: timer reset, False returned, the buffer and the
\* bytes waiting at the port untouched, the request written unless the write failed
Requested ==
    /\ sma.mmregistered_last_register_request = now
    /\ ret = FALSE
    /\ sma.datagram = before.sma.datagram
    /\ ser.rx = IF InWaitingRaises(before.ser) THEN <<>> ELSE before.ser.rx
    /\ ser.tx \in {before.ser.tx, Append(before.ser.tx, RegisterRequest)}

\* that cycle made no request
NotRequested ==
    /\ sma.mmregistered_last_register_request = before.sma.mmregistered_last_register_request
    /\ ser.tx = before.ser.tx

\* a cycle about to start unregistered on a port that answers, its write working,
\* with the last request `e` units old or older, writes the request
WritesFrom(e) ==
    (pc = "cycle" /\ ~InWaitingRaises(ser) /\ ~sma.mmregistered
     /\ now - sma.mmregistered_last_register_request >= e)
    => PollCycle(sma, ser, present, now, FALSE).ser.tx = Append(ser.tx, RegisterRequest)

\* C14 (as claimed): request cooldown. A cycle that comes to the registration
\* test unregistered makes a request exactly when the last request is at least
\* 2 units old.
RequestCooldownAtLeast ==
    /\ AtRequestTest => IF Elapsed >= RegisterCooldown THEN Requested ELSE NotRequested
    /\ WritesFrom(RegisterCooldown)

\* C14 (amended): the same with the threshold the code has, more than 2 units.
RequestCooldown ==
    /\ AtRequestTest => IF Elapsed > RegisterCooldown THEN Requested ELSE NotRequested
    /\ WritesFrom(RegisterCooldown + 1)

\* C14 witness: with the last request 3 units old and bytes waiting at the
\* port, the cycle wrote the request and read nothing
RequestCooldownWitness ==
    /\ AtRequestTest /\ ~InWaitingRaises(before.ser) /\ Elapsed = 3
    /\ before.ser.rx # <<>> /\ ser.rx = before.ser.rx
    /\ ser.tx = <<RegisterRequest>> /\ sma.mmregistered_last_register_request = now

\* b holds the confirmation header *B followed by at least 11 bytes
HoldsConfirmation(b) ==
    \E i \in 1..(Len(b) - 12) : b[i] = Marker /\ b[i + 1] = CmdB

\* the buffer a cycle that starts now works on: what it holds and what the
\* port has waiting (nothing, when the port has to be reopened first)
CycleBuffer == IF InWaitingRaises(ser) THEN sma.datagram ELSE sma.datagram \o ser.rx

\* C15: registration state transitions. mmregistered goes from False to True
\* only in a cycle whose buffer holds *B followed by at least 11 bytes, and
\* from True to False only in a cycle whose query of the port raises; no other
\* step (bytes arriving, the check, the signals being read) changes it.
RegistrationTransitions ==
    [][/\ (~sma.mmregistered /\ sma'.mmregistered)
          => (pc = "cycle" /\ HoldsConfirmation(CycleBuffer))
       /\ (sma.mmregistered /\ ~sma'.mmregistered)
          => (pc = "cycle" /\ InWaitingRaises(ser))]_vars

\* C15 witness: a decoder that had registered lost its port and is unregistered
RegistrationTransitionsWitness ==
    /\ Cycled /\ before.sma.mmregistered /\ InWaitingRaises(before.ser)
    /\ before.sma.serialnumber # None /\ ~sma.mmregistered

\* C16: no request while registered. A cycle that starts registered on a port
\* that answers writes nothing and leaves the request timer alone, however old
\* the last request is; a cycle that writes ends unregistered.
NoRequestWhileRegistered ==
    /\ CycledRegistered
        => /\ ser.tx = before.ser.tx
           /\ sma.mmregistered_last_register_request
                = before.sma.mmregistered_last_register_request
    /\ (Cycled /\ ser.tx # before.ser.tx) => ~sma.mmregistered

\* C16 witness: a registered decoder whose last request is more than 2 units
\* old read and decoded a record and wrote nothing
NoRequestWhileRegisteredWitness ==
    /\ CycledRegistered /\ Elapsed > RegisterCooldown
    /\ ret /\ ser.tx = <<>> /\ sma.mmregistered

\* C17 (as claimed): device identity is write-once. Once serialnumber is set
\* no step changes it, and what is set is an 11-byte value.
IdentityWriteOnce ==
    [][/\ sma.serialnumber # None => sma'.serialnumber = sma.serialnumber
       /\ sma'.serialnumber # None => Len(sma'.serialnumber[1]) = 11]_vars

\* C17 (amended): device identity is set at each registration. serialnumber
\* is None as long as the decoder never registered; a step changes it only if
\* it is a cycle that captures a registration, and then to the 11 bytes behind
\* a *B header of its buffer; bytes read while registered and a transport
\* failure leave it alone.
IdentityPerRegistration ==
    [][/\ sma.serialnumber = None => ~sma.mmregistered
       /\ sma'.serialnumber # sma.serialnumber
          => /\ pc = "cycle" /\ sma'.mmregistered
             /\ ~sma.mmregistered \/ InWaitingRaises(ser)
             /\ \E i \in 1..(Len(CycleBuffer) - 12) :
                  /\ CycleBuffer[i] = Marker /\ CycleBuffer[i + 1] = CmdB
                  /\ sma'.serialnumber = Some(SubSeq(CycleBuffer, i + 2, i + 12))
       /\ (pc = "cycle" /\ InWaitingRaises(ser) /\ ~sma'.mmregistered)
          => sma'.serialnumber = sma.serialnumber]_vars

\* C17 witness: after a transport failure a second registration replaced the
\* serial number of the first
IdentityPerRegistrationWitness ==
    /\ Cycled /\ before.sma.serialnumber = Some(SerialA)
    /\ sma.mmregistered /\ sma.serialnumber = Some(SerialB)

\* C18 (as claimed): transport loss resets the decoder. A cycle whose query of
\* the port raises leaves the decoder unregistered and its buffer empty (the
\* port, when it could be reopened, has no byte waiting yet).
TransportLossResets ==
    (Cycled /\ InWaitingRaises(before.ser))
    => (~sma.mmregistered /\ sma.datagram = <<>>)

IsSuffix(a, b) == Len(a) <= Len(b) /\ a = SubSeq(b, Len(b) - Len(a) + 1, Len(b))

\* the bytes the last cycle worked on: its buffer, and what it read if it read
WorkedOn == IF ser.rx = <<>> THEN Buf ELSE before.sma.datagram

\* C19: no fatal path. Whatever the buffer holds, whatever the registration
\* state and whatever chunk is read, no exception leaves a cycle and it
\* returns a boolean; a cycle that captures no registration leaves in the
\* buffer an end of the bytes it worked on (bytes are discarded from the front
\* only, none is altered or invented).
NoFatalPath ==
    /\ pc # "raised"
    /\ ret \in BOOLEAN
    /\ (Cycled /\ ~Captured) => IsSuffix(sma.datagram, WorkedOn)

\* C19 witness: a registered decoder found a *C record cut after 5 bytes,
\* too short to unpack, and waited
NoFatalPathWitness ==
    /\ CycledRegistered /\ Buf = SubSeq(FrameC(RecA), 1, 5)
    /\ sma.datagram = Buf /\ ret = FALSE

\* what a cycle that decodes nothing reports: a registered decoder with an
\* empty buffer polled with no byte waiting
IdleOutcome == PollCycle(RegisteredIdle, SerOpen(NewSerial), TRUE, 2, FALSE).ret

\* the last cycle found a whole *C or *D record at the front of its buffer,
\* behind the garbage it stripped
RecordAtFront ==
    LET b == StripGarbage(Buf)
    IN \/ StartsWith(b, <<Marker, CmdC>>) /\ Len(b) >= LenC
       \/ StartsWith(b, <<Marker, CmdD>>) /\ Len(b) >= LenD

\* C20 (as claimed): tri-state outcome. The cycle that captures the
\* registration reports an outcome different from that of a cycle that
\* decoded nothing.
TriStateOutcome == (Cycled /\ Captured) => ret # IdleOutcome

\* C20 (amended): two-valued outcome. A cycle reports a boolean, True exactly
\* when it decoded a telemetry record; the cycle that captures the
\* registration reports what a cycle that decoded nothing reports, and raises
\* new_serialnumber.
TwoStateOutcome ==
    /\ ret \in BOOLEAN
    /\ Cycled => (ret <=> (CycledRegistered /\ RecordAtFront))
    /\ (Cycled /\ Captured) => (ret = IdleOutcome /\ sma.new_serialnumber)

\* C20 witness: a cycle captured the registration, raised the flag and
\* returned False
TwoStateOutcomeWitness ==
    /\ Cycled /\ Captured /\ ~before.sma.new_serialnumber
    /\ sma.new_serialnumber /\ ret = FALSE

----------------------------------------------------------------------------
(* C21..C30 *)

\* C21 (as claimed): registration consumes its own frame. After a cycle that
\* captures the registration on a port that answers, the buffer holds exactly
\* the bytes that followed the 13 bytes of the confirmation frame whose serial
\* number was captured.
RegistrationConsumesFrame ==
    (CycledUnregistered /\ Captured)
    => \E i \in 1..(Len(Buf) - 12) :
         /\ SubSeq(Buf, i, i + 12) = FrameB(sma.serialnumber[1])
         /\ sma.datagram = SubSeq(Buf, i + 13, Len(Buf))

\* what is left of b once the leading bytes before its first marker are
\* dropped, the last byte never being dropped
Stripped(b) ==
    LET stops == {i \in 1..Len(b) : b[i] = Marker \/ i = Len(b)}
    IN IF b = <<>> THEN b
       ELSE SubSeq(b, CHOOSE i \in stops : \A j \in stops : i <= j, Len(b))

\* a cycle about to start that will read the port: the port answers and the
\* decoder is registered or its cooldown has not elapsed, and there is a byte
AboutToRead ==
    /\ pc = "cycle" /\ ~InWaitingRaises(ser)
    /\ sma.mmregistered \/ now - sma.mmregistered_last_register_request <= RegisterCooldown
    /\ sma.datagram \o ser.rx # <<>>

\* C22 (as claimed): resynchronisation. _read_data, after appending the bytes
\* read, drops leading bytes while the buffer is longer than 1 and does not
\* start with the marker; it clears the buffer and returns False only when one
\* byte remains that is not the marker, so that a lone marker byte is kept.
Resynchronisation ==
    AboutToRead
    => LET r == _read_data(sma, ser, present, now, FALSE)
           g == Stripped(sma.datagram \o ser.rx)
       IN IF Len(g) = 1 /\ g # <<Marker>>
          THEN r.self.datagram = <<>> /\ r.ret = FALSE
          ELSE r.self.datagram = g /\ r.ret = TRUE

\* the unsigned 32-bit field of b that starts at offset off, least significant
\* byte first
Field32(b, off) ==
    b[off + 1] + 256 * b[off + 2] + 65536 * b[off + 3] + 16777216 * b[off + 4]

\* C23: C-record decode. A registered cycle whose buffer starts with *C and
\* holds at least 41 bytes returns True, removes exactly the first 41 bytes,
\* sets the three export flags from bytes 2..4 (non-zero is true) and the nine
\* phase values from the nine 32-bit fields at bytes 5..40 in the order I1 I2
\* I3 U1 U2 U3 P1 P2 P3, sets command to the code byte, refreshes last_update
\* and leaves the energy counters alone.
CRecordDecode ==
    (CycledRegistered /\ StartsWith(Buf, <<Marker, CmdC>>) /\ Len(Buf) >= LenC)
    => /\ ret = TRUE
       /\ sma.datagram = SubSeq(Buf, LenC + 1, Len(Buf))
       /\ sma.mmdata.export_CT1 = (Buf[3] # 0)
       /\ sma.mmdata.export_CT2 = (Buf[4] # 0)
       /\ sma.mmdata.export_CT3 = (Buf[5] # 0)
       /\ Phase(sma.mmdata) = [k \in 1..9 |-> Field32(Buf, 5 + 4 * (k - 1))]
       /\ sma.mmdata.command = CmdC
       /\ sma.last_update = now
       /\ Energy(sma.mmdata) = Energy(before.sma.mmdata)

\* C23 witness: a registered decoder decoded a *C record that had a second
\* record behind it; the second record stays in the buffer
CRecordDecodeWitness ==
    /\ CycledRegistered /\ Buf = FrameC(RecB) \o FrameC(RecA)
    /\ ret /\ Phase(sma.mmdata) = RecB.vals /\ sma.datagram = FrameC(RecA)
    /\ sma.mmdata.export_CT2 /\ ~sma.mmdata.export_CT1

\* the last cycle got as far as reading the port: the port answered and the
\* decoder was registered or its cooldown had not elapsed
CycledRead ==
    /\ Cycled /\ ~InWaitingRaises(before.ser)
    /\ before.sma.mmregistered \/ Elapsed <= RegisterCooldown

\* C24: unrecognised command. A cycle that reads, whose buffer (the garbage
\* in front of its first marker dropped) starts with the marker and has at
\* offset 1 a byte that is none of B, C, D, E, removes exactly the 2 header
\* bytes, keeps the rest in order, returns False and changes neither mmdata,
\* errors nor the registration state (nor last_update).
UnrecognisedCommand ==
    LET g == Stripped(Buf)
    IN (CycledRead /\ Len(g) >= 2 /\ g[1] = Marker
        /\ g[2] \notin {CmdB, CmdC, CmdD, CmdE})
       => /\ sma.datagram = SubSeq(g, 3, Len(g))
          /\ ret = FALSE
          /\ sma.mmdata = before.sma.mmdata
          /\ sma.errors = before.sma.errors
          /\ sma.mmregistered = before.sma.mmregistered
          /\ sma.serialnumber = before.sma.serialnumber
          /\ sma.last_update = before.sma.last_update

\* C24 witness: an unregistered decoder found *X in front of a whole
\* confirmation frame, dropped the two bytes and kept the frame
UnrecognisedCommandWitness ==
    /\ CycledRead /\ ~before.sma.mmregistered
    /\ Buf = <<Marker, 88>> \o FrameB(SerialB)
    /\ sma.datagram = FrameB(SerialB) /\ ~sma.mmregistered /\ ret = FALSE

\* where the first confirmation header *B of b starts (behind b, if it has none)
FirstB(b) ==
    LET hs == {i \in 1..(Len(b) - 1) : b[i] = Marker /\ b[i + 1] = CmdB}
    IN IF hs = {} THEN Len(b) + 1 ELSE CHOOSE i \in hs : \A j \in hs : i <= j

\* the last cycle discarded every byte in front of the first *B of its buffer,
\* and with fewer than 13 bytes from there on it emptied the buffer, stayed
\* unregistered, left serialnumber alone and returned False
Scanned ==
    LET left == Len(Buf) - (FirstB(Buf) - 1)
    IN /\ Len(sma.datagram) <= left
       /\ left < LenReg
          => /\ sma.datagram = <<>>
             /\ ~sma.mmregistered
             /\ sma.serialnumber = before.sma.serialnumber
             /\ ret = FALSE

\* the buffer of the last cycle, its leading garbage dropped, starts with the
\* marker followed by a byte that is no command
UnrecognisedHeader ==
    LET g == Stripped(Buf)
    IN Len(g) >= 2 /\ g[1] = Marker /\ g[2] \notin {CmdB, CmdC, CmdD, CmdE}

\* the last cycle was one of an unregistered decoder that came to read a
\* buffer with a confirmation header *B in it
CycledScan ==
    CycledRead /\ ~before.sma.mmregistered /\ FirstB(Buf) < Len(Buf)

\* C25 (as claimed): registration scan. A cycle of an unregistered decoder
\* whose cooldown has not elapsed discards every byte before the first *B of
\* its buffer; if fewer than 13 bytes remain from that header on, it empties
\* the buffer, stays unregistered, leaves serialnumber alone and returns False.
RegistrationScan == CycledScan => Scanned

\* C25 (amended): the same for a buffer that, its leading garbage dropped,
\* does not start with the marker followed by an unrecognised command byte.
RegistrationScanBehindHeader == (CycledScan /\ ~UnrecognisedHeader) => Scanned

\* C25 witness: the buffer held the first 5 bytes of a *C record and the last
\* 11 bytes of a confirmation frame, which begin with *B; all was discarded
RegistrationScanWitness ==
    /\ CycledRead /\ ~before.sma.mmregistered
    /\ Buf = SubSeq(FrameC(RecA), 1, 5) \o SubSeq(FrameB(SerialB), 3, 13)
    /\ FirstB(Buf) = 6
    /\ sma.datagram = <<>> /\ ~sma.mmregistered /\ ret = FALSE

\* C26: an error record waits for its lines. A registered cycle whose buffer
\* starts with *E and a line count N > 0, and holds fewer than N segments
\* separated by CR LF, returns False and leaves the buffer, the error list and
\* mmdata unchanged.
ErrorRecordWaits ==
    (CycledRegistered /\ StartsWith(Buf, <<Marker, CmdE>>) /\ Len(Buf) >= 3
     /\ Buf[3] > 0 /\ NumCRLF(Buf) + 1 < Buf[3])
    => /\ ret = FALSE
       /\ sma.datagram = Buf
       /\ sma.errors = before.sma.errors
       /\ sma.mmdata = before.sma.mmdata

\* C26 witness: the header of a two-line error record and its first line,
\* without its CR LF, waited in the buffer
ErrorRecordWaitsWitness ==
    /\ CycledRegistered /\ Buf = SubSeq(FrameE2, 1, 5)
    /\ Buf[3] = 2 /\ NumCRLF(Buf) = 0
    /\ sma.datagram = Buf /\ sma.errors = <<>> /\ ret = FALSE

\* the last cycle made a registration request and its write failed: nothing
\* reached the output buffer
WriteFailed ==
    AtRequestTest /\ Elapsed > RegisterCooldown /\ ser.tx = before.ser.tx

\* C27: a write failure is not fatal. No exception leaves a cycle; a cycle
\* whose request write failed returns False, ends unregistered with its buffer
\* unchanged and its request timer reset, so that from there a cycle at most
\* 2 units later writes nothing and a cycle more than 2 units later writes
\* the request again.
WriteFailureNotFatal ==
    /\ pc # "raised"
    /\ WriteFailed
       => /\ ret = FALSE
          /\ ~sma.mmregistered
          /\ sma.datagram = before.sma.datagram
          /\ sma.mmregistered_last_register_request = now
          /\ \A t \in (now + 1)..(now + RegisterCooldown + 2) :
               LET r == PollCycle(sma, ser, TRUE, t, FALSE)
               IN /\ ~Raised(r)
                  /\ r.ser.tx = IF t - now > RegisterCooldown
                                THEN Append(ser.tx, RegisterRequest) ELSE ser.tx

\* C27 witness: a request write failed while bytes were waiting at the port;
\* the cycle returned False and read nothing
WriteFailureNotFatalWitness ==
    /\ WriteFailed /\ ~InWaitingRaises(before.ser)
    /\ before.ser.rx # <<>> /\ ser.rx = before.ser.rx /\ ser.tx = <<>>
    /\ ~sma.mmregistered /\ ret = FALSE

\* C28 (as claimed): registration request wire format. Whatever the decoder
\* has written to the port is the 2 bytes marker and request code, and a
\* cycle writes at most one request.
RequestIsTwoBytes ==
    /\ \A i \in 1..Len(ser.tx) : ser.tx[i] = <<Marker, CmdA>>
    /\ Cycled => Len(ser.tx) <= Len(before.ser.tx) + 1

\* C28 (amended): whatever the decoder has written is the 3 bytes marker,
\* request code and line feed, and a cycle writes at most one request.
RequestIsThreeBytes ==
    /\ \A i \in 1..Len(ser.tx) : ser.tx[i] = <<Marker, CmdA, LF>>
    /\ Cycled => Len(ser.tx) <= Len(before.ser.tx) + 1

\* C28 witness: a cycle has written one request, 3 bytes long, to the port
RequestIsThreeBytesWitness ==
    /\ Cycled /\ before.ser.tx = <<>> /\ Len(ser.tx) = 1
    /\ Len(ser.tx[1]) = 3 /\ ser.tx[1][3] = LF

\* the two-record streams of a streaming run, as the records sent: an energy
\* record d followed by a telemetry record r
SentDC(d, r) == stream = FrameD(d.rec, d.ef, d.er) \o FrameC(r)

\* the last step was the cycle that followed the arrival of the k-th chunk,
\* the chunk being f, and all the stream up to f having arrived
FedRecord(k, f, left) ==
    /\ pc = "sleep" /\ before # None
    /\ sent = k /\ Len(wire) = left /\ before.ser.rx = f

\* C29 (as claimed): no phantom records. A registered decoder fed a *D record
\* and then a *C record, one whole record per cycle, returns True in each of
\* the two cycles, which leave mmdata equal to the values of the record just
\* sent; a cycle that got no record returns False.
NoPhantomRecords ==
    \A d \in DRecords, r \in Records :
        SentDC(d, r) =>
        /\ FedRecord(1, FrameD(d.rec, d.ef, d.er), LenC)
           => (ret /\ Phase(sma.mmdata) = d.rec.vals /\ Energy(sma.mmdata) = <<d.ef, d.er>>)
        /\ FedRecord(2, FrameC(r), 0)
           => (ret /\ Phase(sma.mmdata) = r.vals /\ Energy(sma.mmdata) = <<d.ef, d.er>>)
        /\ (pc = "sleep" /\ before # None /\ before.ser.rx = <<>> /\ sent = 2)
           => ret = FALSE

\* C30 (as claimed): registration liveness. With the device answering every
\* request with a whole confirmation frame and the caller polling on, at
\* intervals of 1 to 4 units, an unregistered decoder eventually becomes
\* registered.
RegistrationLiveness == (~sma.mmregistered) ~> sma.mmregistered

----------------------------------------------------------------------------
(* C31..C38 *)

\* b is the beginning of a *C, *D or *E record that is not whole yet: the
\* header and fewer bytes than the record has, or fewer lines than it counts
WaitingPrefix(b) ==
    \/ StartsWith(b, <<Marker, CmdC>>) /\ Len(b) < LenC
    \/ StartsWith(b, <<Marker, CmdD>>) /\ Len(b) < LenD
    \/ /\ StartsWith(b, <<Marker, CmdE>>)
       /\ Len(b) < 3 \/ (b[3] > 0 /\ NumCRLF(b) + 1 < b[3])

\* C31: garbage is always drained. A registered cycle that gets no new byte
\* returns True, or leaves the buffer as it is, the buffer being empty or the
\* beginning of an incomplete *C, *D or *E record, or strictly shortens the
\* buffer; a cycle that returns True shortens it too. Hence polling on with
\* no byte arriving, at most one cycle per buffered byte and one more, ends
\* with a buffer that is empty or such a beginning and that polling leaves alone.
GarbageDrained ==
    /\ (CycledRegistered /\ before.ser.rx = <<>>)
       => /\ \/ ret
             \/ sma.datagram = Buf /\ (Buf = <<>> \/ WaitingPrefix(Buf))
             \/ Len(sma.datagram) < Len(Buf)
          /\ ret => Len(sma.datagram) < Len(Buf)
    /\ (pc = "cycle" /\ sma.mmregistered /\ ~InWaitingRaises(ser) /\ ser.rx = <<>>)
       => LET f == Settle(sma, ser, Len(sma.datagram) + 1)
          IN /\ f.datagram = <<>> \/ WaitingPrefix(f.datagram)
             /\ PollCycle(f, ser, TRUE, 2, FALSE).self.datagram = f.datagram

\* C31 witness: a registered decoder with *XY in its buffer and nothing to
\* read dropped the two header bytes and kept the third
GarbageDrainedWitness ==
    /\ CycledRegistered /\ before.ser.rx = <<>> /\ Buf = <<Marker, 88, 89>>
    /\ sma.datagram = <<89>> /\ ret = FALSE

\* the most records queued in one chunk
MaxQueue == 3

\* the sequences of 1 to MaxQueue records
RECURSIVE RecordRuns(_)
RecordRuns(n) ==
    IF n = 0 THEN {<<>>}
    ELSE LET shorter == RecordRuns(n - 1)
         IN shorter \cup {<<r>> \o q : r \in Records, q \in {x \in shorter : Len(x) = n - 1}}

\* the *C frames of the records of q, back to back
RECURSIVE QueueBytes(_)
QueueBytes(q) == IF q = <<>> THEN <<>> ELSE FrameC(Head(q)) \o QueueBytes(Tail(q))

\* cycles from (self, s) on, no byte arriving: one cycle per record of q, each
\* returning True with the values of its record, the buffer empty after the last
RECURSIVE DecodesInOrder(_, _, _)
DecodesInOrder(self, s, q) ==
    IF q = <<>> THEN self.datagram = <<>> /\ s.rx = <<>>
    ELSE LET c == PollCycle(self, s, TRUE, now, FALSE)
         IN /\ c.ret
            /\ Phase(c.self.mmdata) = Head(q).vals
            /\ c.self.datagram = QueueBytes(Tail(q))
            /\ DecodesInOrder(c.self, c.ser, Tail(q))

\* C32: queued records are decoded in order. A registered decoder with an
\* empty buffer that reads k *C records in one chunk returns True in k
\* successive cycles, the later ones with no byte arriving, the i-th leaving
\* mmdata with the values of the i-th record, and the buffer is empty then.
QueuedInOrder ==
    /\ \A r1 \in Records, r2 \in Records :
         /\ (CycledRegistered /\ before.sma.datagram = <<>>
             /\ before.ser.rx = FrameC(r1) \o FrameC(r2))
            => (ret /\ Phase(sma.mmdata) = r1.vals /\ sma.datagram = FrameC(r2))
         /\ (CycledRegistered /\ before.sma.datagram = FrameC(r2) /\ before.ser.rx = <<>>)
            => (ret /\ Phase(sma.mmdata) = r2.vals /\ sma.datagram = <<>>)
    /\ (pc = "cycle" /\ sma.mmregistered /\ ~InWaitingRaises(ser)
        /\ sma.datagram = <<>> /\ ser.rx = <<>>)
       => \A q \in RecordRuns(MaxQueue) :
            DecodesInOrder(sma, [ser EXCEPT !.rx = QueueBytes(q)], q)

\* C32 witness: the second of two records read in one chunk was decoded by a
\* cycle that read nothing, after the first had been decoded
QueuedInOrderWitness ==
    /\ CycledRegistered /\ before.ser.rx = <<>> /\ before.sma.datagram = FrameC(RecA)
    /\ Phase(before.sma.mmdata) = RecB.vals
    /\ ret /\ Phase(sma.mmdata) = RecA.vals /\ sma.datagram = <<>>

RECURSIVE Terminated(_)
\* the lines ls as the device sends them, each followed by its b"\r\n"
Terminated(ls) ==
    IF ls = <<>> THEN <<>> ELSE Head(ls) \o <<CR, LF>> \o Terminated(Tail(ls))

\* the last cycle stored the lines of an error record that counts N > 0 lines:
\* a registered cycle whose buffer, behind its garbage, began with *E and a
\* count above 0 and that emptied the buffer
StoredErrorLines ==
    LET g == Stripped(Buf)
    IN /\ CycledRegistered
       /\ StartsWith(g, <<Marker, CmdE>>) /\ Len(g) >= 3 /\ g[3] > 0
       /\ sma.datagram = <<>>

\* C33 (as claimed): error entries are complete lines. What an *E decode with
\* N > 0 stores are lines that had arrived whole: the stored entries, each
\* with its CR LF behind it, are the bytes that follow the 3 header bytes.
ErrorEntriesComplete ==
    StoredErrorLines
    => StartsWith(PyFrom(Stripped(Buf), 3), Terminated(sma.errors))

\* C34: confirmation frame while registered. A registered cycle whose buffer,
\* behind its garbage, starts with *B empties the whole buffer, returns False
\* and leaves mmregistered, serialnumber, new_serialnumber, mmdata and errors
\* as they were.
ConfirmationWhileRegistered ==
    (CycledRegistered /\ StartsWith(Stripped(Buf), <<Marker, CmdB>>))
    => /\ sma.datagram = <<>>
       /\ ret = FALSE
       /\ sma.mmregistered
       /\ sma.serialnumber = before.sma.serialnumber
       /\ sma.new_serialnumber = before.sma.new_serialnumber
       /\ sma.mmdata = before.sma.mmdata
       /\ sma.errors = before.sma.errors

\* C34 witness: a registered decoder read a whole confirmation frame with
\* another serial number and threw it away
ConfirmationWhileRegisteredWitness ==
    /\ CycledRegistered /\ Buf = FrameB(SerialB)
    /\ sma.datagram = <<>> /\ sma.serialnumber = Some(SerialA)
    /\ ~sma.new_serialnumber /\ ret = FALSE

\* C35: error list frame rule. A step changes the error list only if it is a
\* cycle of a registered decoder on a port that answers whose buffer, behind
\* its garbage, starts with *E; record decodes, the registration, discards,
\* waiting cycles, transport failures and the zeroing of the staleness check
\* leave it alone.
ErrorListFrameRule ==
    [][sma'.errors # sma.errors
       => /\ pc = "cycle"
          /\ sma.mmregistered /\ ~InWaitingRaises(ser)
          /\ StartsWith(Stripped(sma.datagram \o ser.rx), <<Marker, CmdE>>)]_vars

\* C35 witness: a registered decoder that got its error list from an error
\* record still has it after a staleness check, its phase values zero
ErrorListFrameRuleWitness ==
    /\ pc = "sleep" /\ sma.errors = <<ErrLine1>>
    /\ Phase(sma.mmdata) = Zeros9 /\ IsStale(sma.last_update, now)
    /\ sma.mmregistered

----------------------------------------------------------------------------
(* The command-line scripts.  A run of a script is the value of `script`;   *)
(* the decoder is not part of it and its variables keep their first values. *)
(* What a helper hands back (a mount point, a copied file, the answer of   *)
(* blkid, a line on the port) is an input of the step that calls it, and   *)
(* `trace` is the list of the calls made so far with what they returned.   *)

DecoderVars == <<sma, ser, present, wire, sent, now, pc, ret, before, stream>>

\* the decoder as a script run leaves it: never constructed
NoDecoder ==
    /\ sma = NewModuleM(0)
    /\ ser = NewSerial
    /\ present = FALSE
    /\ wire = <<>>
    /\ sent = 0
    /\ now = 0
    /\ pc = "script"
    /\ ret = FALSE
    /\ before = None
    /\ stream = <<>>

\* one call: the helper, whether it worked, and what a look at the drive
\* label found (None where the call does not look, or finds no drive)
Call(op, ok, seen) == [op |-> op, ok |-> ok, seen |-> seen]

----------------------------------------------------------------------------
(* flash_firmware_with_retry of manual_update_firmware.py (the Windows      *)
(* variant has the same loop; there mount_drive always hands back the       *)
(* drive letter and unmount_drive does nothing)                             *)

UF2_FLASH_RETRIES == 3
MOUNT_BASE == "/tmp/esp32_mount"

\* the partition the updater found, and another one
DevA == "/dev/sda1"
DevB == "/dev/sdb1"

\* what check_for_drive_label can return: no drive with the label, or its path
Labels == {None, Some(DevA), Some(DevB)}

\* the largest max_retries of the model
MaxRetries == 4

\* the call flash_firmware_with_retry(firmware_file, device_path, max_retries)
NewFlash(device_path, max_retries) ==
    [prog |-> "flash", device_path |-> device_path, max_retries |-> max_retries,
     attempt |-> 0, at |-> "mount", mount_point |-> None, trace |-> <<>>,
     result |-> None]

Returns(s, v) == [s EXCEPT !.at = "done", !.result = Some(v)]

\* `if attempt < max_retries - 1: time.sleep(5); continue / else: return False`
RetryOrFail(s) ==
    IF s.attempt < s.max_retries - 1
    THEN [s EXCEPT !.attempt = @ + 1, !.at = "mount",
                   !.trace = Append(@, Call("sleep", TRUE, None))]
    ELSE Returns(s, FALSE)

\* top of the loop body: mount_drive(device_path), None when it fails
mount_drive(s, ok) ==
    LET t == [s EXCEPT !.trace = Append(@, Call("mount_drive", ok, None)),
                       !.mount_point = IF ok THEN Some(MOUNT_BASE) ELSE None]
    IN IF ok THEN [t EXCEPT !.at = "copy"] ELSE RetryOrFail(t)

\* copy_firmware_to_drive that leaves the drive mounted when the copy fails
copy_firmware_to_drive_mounted(s, ok) ==
    LET t == [s EXCEPT !.trace = Append(@, Call("copy_firmware_to_drive", ok, None))]
    IN IF ok THEN [t EXCEPT !.at = "disappear"] ELSE RetryOrFail(t)

\* copy_firmware_to_drive, and unmount_drive when it fails
copy_firmware_to_drive(s, ok) ==
    LET t == [s EXCEPT !.trace = Append(@, Call("copy_firmware_to_drive", ok, None))]
    IN IF ok
       THEN [t EXCEPT !.at = "disappear"]
       ELSE RetryOrFail([t EXCEPT !.trace = Append(@, Call("unmount_drive", TRUE, None))])

\* wait_for_drive_to_disappear: True at the first look that finds no drive or
\* the drive at another path, False when every look up to the timeout found
\* it at device_path; `cur` is the last look
wait_for_drive_to_disappear(s, cur) ==
    LET gone == cur = None \/ cur # Some(s.device_path)
        t == [s EXCEPT !.trace = Append(@, Call("wait_for_drive_to_disappear", gone, cur))]
    IN IF gone
       THEN Returns(t, TRUE)
       ELSE LET u == [t EXCEPT !.trace = Append(@, Call("unmount_drive", TRUE, None))]
            IN IF u.attempt < u.max_retries - 1
               THEN [u EXCEPT !.at = "retry"]
               ELSE Returns(u, FALSE)

\* the wait before the next attempt: time.sleep(5), then one more look
check_for_drive_label(s, cur) ==
    LET t == [s EXCEPT !.trace = @ \o <<Call("sleep", TRUE, None),
                                       Call("check_for_drive_label", cur = None, cur)>>]
    IN IF cur = None
       THEN Returns(t, TRUE)
       ELSE [t EXCEPT !.attempt = @ + 1, !.at = "mount"]

InitFlash ==
    /\ NoDecoder
    /\ script \in {NewFlash(DevA, n) : n \in 0..MaxRetries}

Flashing(place) ==
    /\ script # None /\ script.prog = "flash"
    /\ script.at = place
    /\ UNCHANGED DecoderVars

Mount ==
    /\ Flashing("mount")
    /\ script.attempt < script.max_retries
    /\ \E ok \in BOOLEAN : script' = mount_drive(script, ok)

Copy ==
    /\ Flashing("copy")
    /\ \E ok \in BOOLEAN : script' = copy_firmware_to_drive(script, ok)

WaitDisappear ==
    /\ Flashing("disappear")
    /\ \E cur \in Labels : script' = wait_for_drive_to_disappear(script, cur)

RetryWait ==
    /\ Flashing("retry")
    /\ \E cur \in Labels : script' = check_for_drive_label(script, cur)

\* the loop has run out: `return False`
LoopEnd ==
    /\ Flashing("mount")
    /\ script.attempt >= script.max_retries
    /\ script' = Returns(script, FALSE)

NextFlash ==
    \/ Mount
    \/ Copy
    \/ WaitDisappear
    \/ RetryWait
    \/ LoopEnd

\* every helper returns, so a call that has started goes on
SpecFlash == InitFlash /\ [][NextFlash]_vars /\ WF_vars(NextFlash)

----------------------------------------------------------------------------
(* main and get_logs of get_debug_logs.py, main of                          *)
(* manual_update_firmware_win.py.  exit(n) and an exception that nothing    *)
(* catches both end the run: `exit` is then the exit status (1 for a        *)
(* traceback).                                                              *)

MAX_LOG_RETRIES == 5
TtyACM == "/dev/ttyACM0"

\* what the device answers to the log request
LogTexts == {"logs are empty", "boot ok"}

\* one pass of the loop of get_logs: the port cannot be opened or written
\* (serial.SerialException, caught at line 80), nothing is answered before
\* the timeout, lines are answered, or in_waiting at line 70 raises the
\* OSError of a port that has gone away, which no handler of get_logs or of
\* main catches
LogOutcomes == {"SerialException", "silent", "lines", "OSError"}

NewRun(prog, first) ==
    [prog |-> prog, at |-> first, serial_port |-> None, device_path |-> None,
     attempt |-> 0, logs |-> None, trace |-> <<>>, exit |-> None]

Exits(s, status) == [s EXCEPT !.at = "exited", !.exit = Some(status)]
Called(s, op, ok, arg) == [s EXCEPT !.trace = Append(@, Call(op, ok, arg))]

\* `serial_port = find_serial_port()`; IndexError ends main with exit(1)
find_serial_port(s, found, next) ==
    IF found
    THEN [Called(s, "find_serial_port", TRUE, Some(TtyACM))
            EXCEPT !.serial_port = Some(TtyACM), !.at = next]
    ELSE Exits(Called(s, "find_serial_port", FALSE, None), 1)

\* stop-tty.sh has run for the port, or failed, or is not there
stop_serial_starter(s, ok, next) ==
    [Called(s, "stop_serial_starter", ok, s.serial_port) EXCEPT !.at = next]

start_serial_starter(s, ok, next) ==
    [Called(s, "start_serial_starter", ok, s.serial_port) EXCEPT !.at = next]

\* one pass of `for attempt in range(MAX_LOG_RETRIES)`
get_logs(s, outcome, text) ==
    LET t == Called(s, "get_logs", outcome = "lines", None)
    IN CASE outcome = "lines" ->
              [t EXCEPT !.logs = Some(text), !.at = "start"]
         [] outcome = "OSError" -> Exits(t, 1)
         [] OTHER ->
              IF s.attempt < MAX_LOG_RETRIES - 1
              THEN [t EXCEPT !.attempt = @ + 1]
              ELSE [t EXCEPT !.logs = None, !.at = "start"]

\* lines 109-126 of main: the logs are shown or saved, or exit(1)
report(s) == IF s.logs # None THEN Exits(s, 0) ELSE Exits(s, 1)

Running(prog, place) ==
    /\ script # None /\ script.prog = prog
    /\ script.at = place
    /\ UNCHANGED DecoderVars

LogsFindPort ==
    /\ Running("logs", "find")
    /\ \E found \in BOOLEAN : script' = find_serial_port(script, found, "stop")

LogsStop ==
    /\ Running("logs", "stop")
    /\ \E ok \in BOOLEAN : script' = stop_serial_starter(script, ok, "get_logs")

GetLogs ==
    /\ Running("logs", "get_logs")
    /\ \E outcome \in LogOutcomes, text \in LogTexts :
         script' = get_logs(script, outcome, text)

LogsStart ==
    /\ Running("logs", "start")
    /\ \E ok \in BOOLEAN : script' = start_serial_starter(script, ok, "report")

LogsReport ==
    /\ Running("logs", "report")
    /\ script' = report(script)

\* main of the updater up to the flash: `existing_device = check_for_drive_label()`
existing_device(s, cur) ==
    LET t == Called(s, "check_for_drive_label", cur # None, cur)
    IN IF cur # None
       THEN [t EXCEPT !.device_path = cur, !.at = "flash"]
       ELSE [t EXCEPT !.at = "find"]

get_firmware_version(s, ok, next) ==
    [Called(s, "get_firmware_version", ok, None) EXCEPT !.at = next]

\* `if not send_boot_command(...)`: start_serial_starter and exit(1)
send_boot_command(s, ok, started) ==
    LET t == Called(s, "send_boot_command", ok, None)
    IN IF ok
       THEN [t EXCEPT !.at = "wait_usb"]
       ELSE Exits(start_serial_starter(t, started, "exit"), 1)

\* `device_path = wait_for_usb_drive(...)`: start_serial_starter on both ways
wait_for_usb_drive(s, cur, started) ==
    LET t == start_serial_starter(Called(s, "wait_for_usb_drive", cur # None, cur),
                                  started, "flash")
    IN IF cur = None THEN Exits(t, 1) ELSE [t EXCEPT !.device_path = cur]

\* `if not flash_firmware_with_retry(...)`: exit(1); else the version is read
\* once more and main ends
flash_and_verify(s, flashed, found) ==
    LET t == Called(s, "flash_firmware_with_retry", flashed, s.device_path)
    IN IF ~flashed THEN Exits(t, 1)
       ELSE IF ~found THEN Exits(Called(t, "find_serial_port", FALSE, None), 0)
       ELSE Exits(Called(Called(t, "find_serial_port", TRUE, Some(TtyACM)),
                         "get_firmware_version", TRUE, None), 0)

UpdaterCheck ==
    /\ Running("update", "check")
    /\ \E cur \in Labels : script' = existing_device(script, cur)

UpdaterFindPort ==
    /\ Running("update", "find")
    /\ \E found \in BOOLEAN : script' = find_serial_port(script, found, "stop")

UpdaterStop ==
    /\ Running("update", "stop")
    /\ \E ok \in BOOLEAN : script' = stop_serial_starter(script, ok, "version")

UpdaterVersion ==
    /\ Running("update", "version")
    /\ \E ok \in BOOLEAN : script' = get_firmware_version(script, ok, "boot")

UpdaterBoot ==
    /\ Running("update", "boot")
    /\ \E ok, started \in BOOLEAN : script' = send_boot_command(script, ok, started)

UpdaterWaitUsb ==
    /\ Running("update", "wait_usb")
    /\ \E cur \in Labels, started \in BOOLEAN :
         script' = wait_for_usb_drive(script, cur, started)

UpdaterFlash ==
    /\ Running("update", "flash")
    /\ \E flashed, found \in BOOLEAN : script' = flash_and_verify(script, flashed, found)

InitStarter ==
    /\ NoDecoder
    /\ script \in {NewRun("logs", "find"), NewRun("update", "check")}

NextStarter ==
    \/ LogsFindPort
    \/ LogsStop
    \/ GetLogs
    \/ LogsStart
    \/ LogsReport
    \/ UpdaterCheck
    \/ UpdaterFindPort
    \/ UpdaterStop
    \/ UpdaterVersion
    \/ UpdaterBoot
    \/ UpdaterWaitUsb
    \/ UpdaterFlash

SpecStarter == InitStarter /\ [][NextStarter]_vars

----------------------------------------------------------------------------
(* ESP32DebugCommander of send_debug_command.py.  `self` is the commander,  *)
(* `written` the messages the port has taken so far, `last` the method call *)
(* that made the last step: its name and argument, what it returned, how    *)
(* many lines read_response read, and the run as the call found it.         *)

DEBUG_DEVICE_MAGIC_START == 36

REGISTER_DEBUG_SEND_BACK_CONFIRMATION == 65
GET_CT_CALIBRATION_TABLE == 74

\* DEBUG_OPTIONS .. GET_ESP_RESET_REASON and GET_FIRMWARE_VERSION, the
\* commands of the methods that take no argument and keep no state
PlainCommands == (67..73) \cup {75}

\* the CT numbers the menu can pass on: int(ct_num) of any input
CtNumbers == 0..4

\* the lines the device sends within the timeout of read_response
LineCounts == 0..2

\* the method calls of one run
MaxCalls == 4

\* ord(str(n)) of a one-digit n
OrdStr(n) == 48 + n

\* ESP32DebugCommander(): no connection, not registered
NewCommander == [port |-> TtyACM, serial_conn |-> None, registered |-> FALSE]

IsConnected(self) == self.serial_conn # None /\ self.serial_conn[1].is_open

\* connect(): a new serial.Serial, or the exception that leaves serial_conn
\* as it was
connect(self, ok) ==
    IF ok
    THEN [self |-> [self EXCEPT !.serial_conn = Some([is_open |-> TRUE])], ret |-> TRUE]
    ELSE [self |-> self, ret |-> FALSE]

\* disconnect(): closes an open connection and keeps the object
disconnect(self) ==
    IF IsConnected(self)
    THEN [self EXCEPT !.serial_conn = Some([is_open |-> FALSE])]
    ELSE self

\* read_response(): True when at least one non-empty line was read
read_response(self, lines) == IF self.serial_conn = None THEN FALSE ELSE lines > 0

\* send_command without the test of the connection
send_command_unguarded(self, out, command, extra_option, wfail, lines) ==
    LET message == <<DEBUG_DEVICE_MAGIC_START, command>> \o extra_option
    IN IF wfail
       THEN [self |-> self, out |-> out, ret |-> FALSE, lines |-> 0]
       ELSE [self |-> self, out |-> Append(out, message),
             ret |-> read_response(self, lines), lines |-> lines]

\* send_command(command, extra_option): `out` is what the port has taken;
\* wfail is a write or flush that raises, caught at line 97
send_command(self, out, command, extra_option, wfail, lines) ==
    IF ~IsConnected(self)
    THEN [self |-> self, out |-> out, ret |-> FALSE, lines |-> 0]
    ELSE LET message == <<DEBUG_DEVICE_MAGIC_START, command>> \o extra_option
         IN IF wfail
            THEN [self |-> self, out |-> out, ret |-> FALSE, lines |-> 0]
            ELSE [self |-> self, out |-> Append(out, message),
                  ret |-> read_response(self, lines), lines |-> lines]

register_debug_device(self, out, wfail, lines) ==
    LET r == send_command(self, out, REGISTER_DEBUG_SEND_BACK_CONFIRMATION, None, wfail, lines)
    IN IF r.ret THEN [r EXCEPT !.self.registered = TRUE] ELSE r

get_ct_calibration(self, out, ct_number, wfail, lines) ==
    IF ct_number \notin {1, 2, 3}
    THEN [self |-> self, out |-> out, ret |-> FALSE, lines |-> 0]
    ELSE send_command(self, out, GET_CT_CALIBRATION_TABLE, Some(OrdStr(ct_number)),
                      wfail, lines)

NewDebug ==
    [prog |-> "debug", self |-> NewCommander, written |-> <<>>, calls |-> 0,
     last |-> None]

InitDebug ==
    /\ NoDecoder
    /\ script = NewDebug

\* the run after a method call `op(arg)` that gave r
AfterCall(op, arg, r) ==
    [script EXCEPT !.self = r.self, !.written = r.out, !.calls = @ + 1,
                   !.last = Some([op |-> op, arg |-> arg, ret |-> r.ret,
                                  lines |-> r.lines, self |-> script.self,
                                  written |-> script.written])]

Debugging ==
    /\ script # None /\ script.prog = "debug"
    /\ script.calls < MaxCalls
    /\ UNCHANGED DecoderVars

Connect ==
    /\ Debugging
    /\ \E ok \in BOOLEAN :
         LET r == connect(script.self, ok)
         IN script' = AfterCall("connect", None,
                                [self |-> r.self, out |-> script.written,
                                 ret |-> r.ret, lines |-> 0])

Disconnect ==
    /\ Debugging
    /\ script' = AfterCall("disconnect", None,
                           [self |-> disconnect(script.self), out |-> script.written,
                            ret |-> FALSE, lines |-> 0])

Register ==
    /\ Debugging
    /\ \E wfail \in BOOLEAN, lines \in LineCounts :
         script' = AfterCall("register_debug_device", None,
                             register_debug_device(script.self, script.written, wfail, lines))

GetCtCalibration ==
    /\ Debugging
    /\ \E ct_number \in CtNumbers, wfail \in BOOLEAN, lines \in LineCounts :
         script' = AfterCall("get_ct_calibration", Some(ct_number),
                             get_ct_calibration(script.self, script.written,
                                                ct_number, wfail, lines))

\* get_debug_options, trigger_bootloader, ... get_firmware_version
SendPlain ==
    /\ Debugging
    /\ \E command \in PlainCommands, wfail \in BOOLEAN, lines \in LineCounts :
         script' = AfterCall("send_command", Some(command),
                             send_command(script.self, script.written, command,
                                          None, wfail, lines))

NextDebug ==
    \/ Connect
    \/ Disconnect
    \/ Register
    \/ GetCtCalibration
    \/ SendPlain

SpecDebug == InitDebug /\ [][NextDebug]_vars

----------------------------------------------------------------------------
(* C36..C38: the command-line scripts *)

FlashRun == script # None /\ script.prog = "flash"

\* the positions of the trace where helper `op` was called
CallsOf(s, op) == {i \in DOMAIN s.trace : s.trace[i].op = op}

\* an attempt begins with its mount_drive
Attempts(s) == Cardinality(CallsOf(s, "mount_drive"))

\* the looks at the drive label, and the steps of an attempt that can fail
Looks(s) == CallsOf(s, "wait_for_drive_to_disappear") \cup CallsOf(s, "check_for_drive_label")
FailedSteps(s) ==
    {i \in CallsOf(s, "mount_drive") \cup CallsOf(s, "copy_firmware_to_drive")
             \cup CallsOf(s, "wait_for_drive_to_disappear") : ~s.trace[i].ok}

FlashRetrySafe(s) ==
    /\ Attempts(s) <= s.max_retries
    \* a look that finds no drive is the last call, and the answer is True
    /\ \A i \in Looks(s) :
         s.trace[i].seen = None => i = Len(s.trace) /\ s.result = Some(TRUE)
    \* True only on a look that did not find the drive where it was
    /\ s.result = Some(TRUE)
         => /\ Len(s.trace) \in Looks(s)
            /\ s.trace[Len(s.trace)].seen # Some(s.device_path)
    \* False only when max_retries attempts were made and each of them failed
    /\ s.result = Some(FALSE)
         => /\ Attempts(s) = s.max_retries
            /\ Cardinality(FailedSteps(s)) = s.max_retries
    \* a failed copy or disappearance check is followed by the unmount
    /\ \A i \in FailedSteps(s) :
         s.trace[i].op # "mount_drive"
           => i < Len(s.trace) /\ s.trace[i + 1].op = "unmount_drive"

\* C36: bounded flash retry. flash_firmware_with_retry returns, having made at
\* most max_retries attempts; it returns True as soon as a look at the label
\* finds the drive gone and only then, False only after max_retries attempts
\* that all failed, and it calls unmount_drive right after every failed copy
\* and every failed disappearance check.
BoundedFlashRetry ==
    /\ [](FlashRun => FlashRetrySafe(script))
    /\ <>(FlashRun /\ script.result # None)

\* C36 witness: with the default three attempts the first copy failed, the
\* drive stayed after the second copy and after the wait, the third mount
\* failed, and the call returned False
BoundedFlashRetryWitness ==
    /\ FlashRun /\ script.max_retries = UF2_FLASH_RETRIES
    /\ script.result = Some(FALSE) /\ Attempts(script) = UF2_FLASH_RETRIES
    /\ \E i \in CallsOf(script, "copy_firmware_to_drive") : ~script.trace[i].ok
    /\ \E i \in CallsOf(script, "check_for_drive_label") :
         script.trace[i].seen = Some(DevA)
    /\ ~script.trace[Len(script.trace)].ok
    /\ script.trace[Len(script.trace)].op = "mount_drive"

\* every stop_serial_starter of the trace has a start_serial_starter for the
\* same port after it
StarterPaired(s) ==
    \A i \in CallsOf(s, "stop_serial_starter") :
      \E j \in CallsOf(s, "start_serial_starter") :
        j > i /\ s.trace[j].seen = s.trace[i].seen

StarterRun == script # None /\ script.prog \in {"logs", "update"}

\* the run is over, or the updater has gone on to flash
LeftOrFlashing == script.exit # None \/ script.at = "flash"

\* C37: serial-starter pairing. When a run of the log retriever or of the
\* updater has ended, or the updater has gone on to flash, every
\* stop_serial_starter it called for a port was followed by a
\* start_serial_starter for that port.
SerialStarterPairing ==
    StarterRun /\ LeftOrFlashing => StarterPaired(script)

\* the same for the updater alone
UpdaterStarterPairing ==
    StarterRun /\ script.prog = "update" /\ LeftOrFlashing => StarterPaired(script)

\* the updater stopped the serial starter and left after a failed bootloader
\* trigger
UpdaterStarterPairingWitness ==
    /\ StarterRun /\ script.prog = "update" /\ script.exit = Some(1)
    /\ CallsOf(script, "stop_serial_starter") # {}
    /\ \E i \in CallsOf(script, "send_boot_command") : ~script.trace[i].ok

DebugCalled == script # None /\ script.prog = "debug" /\ script.last # None

\* the last call of the run, and whether it is one that sends a command
LastCall == script.last[1]
IsSending(c) == c.op \in {"register_debug_device", "get_ct_calibration", "send_command"}

\* C38: debug commander guards. A sending method called without an open
\* connection writes nothing and returns False; registered turns True only in
\* a register_debug_device whose command was written and drew at least one
\* line; get_ct_calibration writes only for the CT numbers 1, 2 and 3, the
\* command with the digit behind it, and for any other number returns False
\* and writes nothing.
DebugCommanderGuards ==
    DebugCalled =>
      LET c == LastCall
      IN /\ IsSending(c) /\ ~IsConnected(c.self)
              => script.written = c.written /\ ~c.ret
         /\ script.self.registered /\ ~c.self.registered
              => /\ c.op = "register_debug_device"
                 /\ script.written
                      = Append(c.written, <<DEBUG_DEVICE_MAGIC_START,
                                            REGISTER_DEBUG_SEND_BACK_CONFIRMATION>>)
                 /\ c.lines >= 1
         /\ c.op = "get_ct_calibration"
              => /\ script.written # c.written
                      => /\ c.arg[1] \in {1, 2, 3}
                         /\ script.written
                              = Append(c.written, <<DEBUG_DEVICE_MAGIC_START,
                                                    GET_CT_CALIBRATION_TABLE,
                                                    OrdStr(c.arg[1])>>)
                 /\ c.arg[1] \notin {1, 2, 3}
                      => script.written = c.written /\ ~c.ret

\* C38 witness: a connected commander registered on an answered command,
\* closed the connection, and was then asked for the table of CT 2: nothing
\* more was written and the call returned False
DebugCommanderGuardsWitness ==
    /\ DebugCalled /\ script.self.registered
    /\ LastCall.op = "get_ct_calibration" /\ LastCall.arg = Some(2)
    /\ ~IsConnected(LastCall.self) /\ LastCall.self.serial_conn # None
    /\ script.written = <<<<DEBUG_DEVICE_MAGIC_START,
                            REGISTER_DEBUG_SEND_BACK_CONFIRMATION>>>>
    /\ ~LastCall.ret

====
